---- MODULE Spec2Model ----
(***************************************************************************)
(* A model of mapelia: the "walking the dog" triangulation (get_faces),    *)
(* the orientation flip (invert), the point sampler (get_map_points) of    *)
(* projections.pyx, and the stl-split program.                             *)
(*                                                                         *)
(* Python indices are kept 0-based in the variables (i, j, dog, ...) and   *)
(* shifted by one where a TLA+ sequence is indexed.                        *)
(***************************************************************************)
EXTENDS Integers, Sequences, FiniteSets, TLC

VARIABLES
    \* ---- get_faces / invert (projections.pyx) ----
    pc,               \* position inside get_faces, then in its caller
    points,           \* argument: list of rows of Points
    close_figure,     \* argument
    faces,            \* the list being built and returned
    j, i,             \* loop indices of get_faces
    dog, dog_walking, \* the cursors into row_previous
    dist,             \* squared distance human-dog (a rational)
    inverted_faces,   \* invert(faces)
    twice_inverted,   \* invert(invert(faces))
    \* ---- get_map_points (projections.pyx); pc, points, j, i are shared ----
    heights,          \* argument: the grid, heights[j + 1][i + 1]
    start_pid,        \* argument pid as given by the caller
    pid,              \* the id counter (the argument, incremented)
    ptype,            \* argument: projection kind
    npoints,          \* argument: target count
    scale,            \* argument, in hundredths
    caps,             \* argument: "none", "auto" or degrees
    meridians,        \* argument: list of (pos, width), in angle units
    protrusion,       \* argument
    row,              \* the row being filled
    \* ---- stl-split; pc and i are shared ----
    args,             \* the parsed command line
    input,            \* the file args.file on disk (None when missing)
    existing,         \* other paths that exist before the run
    zcut,             \* the cutting plane (a rational)
    triangles_per_class, \* dict of class -> triangles, in insertion order
    written,          \* the files written so far: (path, content), in order
    exit,             \* how main ended: status and diagnostic
    \* ---- get_cap_points, get_logo_points, points_at_extreme; pc, points,
    \*      j, i, heights, start_pid, pid, protrusion, row are shared ----
    sphere_r,         \* argument r of get_cap_points and get_sphere_points
    phi_max,          \* argument: the angle where the cap or the logo ends
    sample_points,    \* argument of points_at_extreme
    at_extreme        \* the list points_at_extreme returns

\* variables of get_faces and invert only
fonly == <<close_figure, faces, dog, dog_walking, dist, inverted_faces,
           twice_inverted>>

\* variables of get_map_points only
monly == <<heights, start_pid, pid, ptype, npoints, scale, caps, meridians,
           protrusion, row>>

\* variables of stl-split only
sonly == <<args, input, existing, zcut, triangles_per_class, written, exit>>

\* variables of the cap, the logo and the boundary only
conly == <<sphere_r, phi_max, sample_points, at_extreme>>

fvars == <<pc, points, j, i, fonly>>

vars == <<pc, points, j, i, fonly, monly, sonly, conly>>

----------------------------------------------------------------------------
(* Bounds of the model *)

MaxRows == 3      \* rows in one get_faces input
MaxRowLen == 3    \* points in one row
MaxPoints == 5    \* points in one get_faces input

----------------------------------------------------------------------------
(* Small helpers *)

RECURSIVE SumSeq(_)
SumSeq(s) == IF s = <<>> THEN 0 ELSE s[1] + SumSeq(Tail(s))

Max2(a, b) == IF a >= b THEN a ELSE b

\* exact square root (the inputs below all have integer norms)
Sqrt(n) == CHOOSE k \in 0..n : k * k = n

None == "None"

----------------------------------------------------------------------------
(* Point, norm, dist2 *)

Point(id, x, y, z) == [pid |-> id, x |-> x, y |-> y, z |-> z]

\* norm(p): the components of p divided by r = sqrt(x*x + y*y + z*z).  The
\* result is the exact rational triple (x/r, y/r, z/r), kept as numerators
\* over the common denominator r.
norm(p) ==
    LET r == Sqrt(p.x * p.x + p.y * p.y + p.z * p.z)
    IN  [x |-> p.x, y |-> p.y, z |-> p.z, r |-> r]

\* dist2(p0, p1): dx*dx + dy*dy + dz*dz with dx = x1 - x0, ... on two
\* normalized points; dx = p1.x/p1.r - p0.x/p0.r, so the sum is the rational
\* num/den below.
dist2(p0, p1) ==
    LET dx == p1.x * p0.r - p0.x * p1.r
        dy == p1.y * p0.r - p0.y * p1.r
        dz == p1.z * p0.r - p0.z * p1.r
    IN  [num |-> dx * dx + dy * dy + dz * dz,
         den |-> (p0.r * p1.r) * (p0.r * p1.r)]

\* mutant of Less: the comparison reversed
Less_reversed(a, b) == a.num * b.den > b.num * a.den

\* mutant of Less: an equal distance also moves the dog
Less_or_equal(a, b) == a.num * b.den <= b.num * a.den

\* a < b on rationals with positive denominators (dist_new < dist)
Less(a, b) == a.num * b.den < b.num * a.den

----------------------------------------------------------------------------
(* Inputs of get_faces *)

\* Directions used for free-form rows: four points of a half circle, one of
\* them off the unit sphere, with (0,1,0) equidistant from its neighbours.
Pool == { <<2, 0, 0>>, <<3, 4, 0>>, <<0, 1, 0>>, <<-3, 4, 0>> }

\* A row of get_map_points over nx = n columns, sampled with stepx = 1 on the
\* equirectangular projection at the equator with radius 1: column i lies at
\* theta = 2 * pi * (i - n // 2) / n, so the n points are evenly spaced on
\* the circle and no position is repeated.
Ring(n) ==
    CASE n = 1 -> << <<1, 0, 0>> >>
      [] n = 2 -> << <<-1, 0, 0>>, <<1, 0, 0>> >>
      [] n = 4 -> << <<-1, 0, 0>>, <<0, -1, 0>>, <<1, 0, 0>>, <<0, 1, 0>> >>

\* the row lengths whose points have integer coordinates (the ring of three
\* points has none)
RingSizes == {1, 2, 4}

\* rows of Points with consecutive ids from pid0, as the samplers make them:
\* row r has lens[r] points, the k-th point of the input lies at pos[k]
RECURSIVE MkRows(_, _, _)
MkRows(lens, pos, pid0) ==
    IF lens = <<>> THEN <<>>
    ELSE <<[c \in 1..lens[1] |->
              Point(pid0 + c - 1, pos[c][1], pos[c][2], pos[c][3])]>>
         \o MkRows(Tail(lens), [c \in 1..(Len(pos) - lens[1]) |-> pos[c + lens[1]]],
                   pid0 + lens[1])

LenSeqs ==
    { ls \in UNION { [1..k -> 1..MaxRowLen] : k \in 2..MaxRows } :
        SumSeq(ls) <= MaxPoints }

\* two identical regular circular rows (the second one scaled by k)
RingInput(n, k) ==
    MkRows(<<n, n>>,
           Ring(n) \o [c \in 1..n |-> <<k * Ring(n)[c][1], k * Ring(n)[c][2],
                                         k * Ring(n)[c][3]>>], 0)

----------------------------------------------------------------------------
(* get_faces, one action per step of its loops *)

\* mutant of row_previous: always the first row
row_previous_first == points[1]

row_previous == points[j]        \* points[j - 1], 0-based
row_current == points[j + 1]     \* points[j], 0-based
\* mutant of h: the human stays at the first point of the row
h_first == row_current[1]

h == row_current[i + 1]          \* point where the human is
d == row_previous[dog + 1]       \* point where the dog is

\* get_map_points is not running
IdleMap ==
    /\ heights = None /\ start_pid = None /\ pid = None /\ ptype = None
    /\ npoints = None /\ scale = None /\ caps = None /\ meridians = None
    /\ protrusion = None /\ row = None

\* stl-split is not running
IdleSplit ==
    /\ args = None /\ input = None /\ existing = None /\ zcut = None
    /\ triangles_per_class = None /\ written = None /\ exit = None

\* the cap, the logo and the boundary functions are not running
IdleCaps ==
    /\ sphere_r = None /\ phi_max = None /\ sample_points = None
    /\ at_extreme = None

\* get_faces and invert are not running
IdleFaces ==
    /\ close_figure = None /\ faces = None /\ dog = None /\ dog_walking = None
    /\ dist = None /\ inverted_faces = None /\ twice_inverted = None

InitFaces ==
    /\ \/ \E ls \in LenSeqs : \E pos \in [1..SumSeq(ls) -> Pool] :
             points = MkRows(ls, pos, 0)
       \/ \E n \in RingSizes, k \in 1..2 : points = RingInput(n, k)
    /\ close_figure \in BOOLEAN
    /\ pc = "for_j"
    /\ faces = <<>>
    /\ j = 1
    /\ i = 0
    /\ dog = 0
    /\ dog_walking = 0
    /\ dist = None
    /\ inverted_faces = None
    /\ twice_inverted = None
    /\ IdleMap
    /\ IdleSplit
    /\ IdleCaps

\* mutant of dog_at_start: the dog stays where the last pair left it
dog_at_start_carried(dog_before) == dog_before

\* dog = 0, at the start of every pair of rows
dog_at_start(dog_before) == 0

\* for j in range(1, len(points)): ...; dog = 0
ForJ ==
    /\ pc = "for_j"
    /\ IF j < Len(points)
       THEN /\ dog' = dog_at_start(dog)
            /\ i' = 0
            /\ pc' = "for_i"
       ELSE /\ pc' = "done"
            /\ UNCHANGED <<dog, i>>
    /\ UNCHANGED <<points, close_figure, faces, j, dog_walking, dist,
                   inverted_faces, twice_inverted>>
    /\ UNCHANGED <<monly, sonly, conly>>

\* for i in range(len(row_current)): dog_walking = dog; dist = ...
ForI ==
    /\ pc = "for_i"
    /\ IF i < Len(row_current)
       THEN /\ dog_walking' = dog
            /\ dist' = dist2(norm(h), norm(d))
            /\ pc' = "walk"
       ELSE /\ pc' = "close"
            /\ UNCHANGED <<dog_walking, dist>>
    /\ UNCHANGED <<points, close_figure, faces, j, i, dog,
                   inverted_faces, twice_inverted>>
    /\ UNCHANGED <<monly, sonly, conly>>

\* one iteration of "while True": let the dog walk one step, or break
Walk ==
    /\ pc = "walk"
    /\ LET dw_idx == (dog_walking + 1) % Len(row_previous)
           dw == row_previous[dw_idx + 1]
           dist_new == dist2(norm(h), norm(dw))
       IN  /\ dog_walking' = dw_idx
           /\ IF Less(dist_new, dist)
              THEN /\ faces' = Append(faces, <<h.pid, dw.pid, d.pid>>)
                   /\ dog' = dw_idx
                   /\ dist' = dist_new
                   /\ pc' = "walk"
              ELSE /\ pc' = "bridge"
                   /\ UNCHANGED <<faces, dog, dist>>
    /\ UNCHANGED <<points, close_figure, j, i, inverted_faces, twice_inverted>>
    /\ UNCHANGED <<monly, sonly, conly>>

\* mutant of HasNext: off by one
HasNext_off(ii, r) == ii + 2 < Len(r)

\* if i + 1 < len(row_current)
HasNext(ii, r) == ii + 1 < Len(r)

\* triangle from the current position to the next one and the dog
Bridge ==
    /\ pc = "bridge"
    /\ faces' = IF HasNext(i, row_current)
                THEN Append(faces, <<h.pid, row_current[i + 2].pid, d.pid>>)
                ELSE IF close_figure
                THEN Append(faces, <<h.pid, row_current[1].pid, d.pid>>)
                ELSE faces
    /\ i' = i + 1
    /\ pc' = "for_i"
    /\ UNCHANGED <<points, close_figure, j, dog, dog_walking, dist,
                   inverted_faces, twice_inverted>>
    /\ UNCHANGED <<monly, sonly, conly>>

\* mutant of figure_open: the figure is never closed
figure_open_never == FALSE

\* if close_figure: while dog != 0
figure_open == close_figure /\ dog # 0

\* if close_figure: while dog != 0: ...   (then the next j)
Close ==
    /\ pc = "close"
    /\ IF figure_open
       THEN LET dw_idx == (dog + 1) % Len(row_previous)
            IN  /\ dog_walking' = dw_idx
                /\ faces' = Append(faces, <<row_current[1].pid,
                                            row_previous[dw_idx + 1].pid, d.pid>>)
                /\ dog' = dw_idx
                /\ UNCHANGED <<j, pc>>
       ELSE /\ j' = j + 1
            /\ pc' = "for_j"
            /\ UNCHANGED <<dog_walking, faces, dog>>
    /\ UNCHANGED <<points, close_figure, i, dist, inverted_faces, twice_inverted>>
    /\ UNCHANGED <<monly, sonly, conly>>

----------------------------------------------------------------------------
(* invert *)

\* mutant of invert: the ids rotated instead of the last two swapped
invert_rotated(fs) == [k \in 1..Len(fs) |-> <<fs[k][2], fs[k][3], fs[k][1]>>]

\* for p0, p1, p2 in faces: inverted_faces.append((p0, p2, p1))
invert(fs) == [k \in 1..Len(fs) |-> <<fs[k][1], fs[k][3], fs[k][2]>>]

\* the caller inverts the faces returned by get_faces
Invert ==
    /\ pc = "done"
    /\ inverted_faces' = invert(faces)
    /\ pc' = "inverted"
    /\ UNCHANGED <<points, close_figure, faces, j, i, dog, dog_walking, dist,
                   twice_inverted>>
    /\ UNCHANGED <<monly, sonly, conly>>

InvertAgain ==
    /\ pc = "inverted"
    /\ twice_inverted' = invert(inverted_faces)
    /\ pc' = "inverted_twice"
    /\ UNCHANGED <<points, close_figure, faces, j, i, dog, dog_walking, dist,
                   inverted_faces>>
    /\ UNCHANGED <<monly, sonly, conly>>

NextFaces == ForJ \/ ForI \/ Walk \/ Bridge \/ Close \/ Invert \/ InvertAgain

SpecFaces == InitFaces /\ [][NextFaces]_vars

----------------------------------------------------------------------------
(* Properties of get_faces and invert *)

Ids(r) == { r[c].pid : c \in 1..Len(r) }
FaceIds(f) == { f[1], f[2], f[3] }

\* the run is over for an input of exactly one pair of rows
PairDone == pc = "done" /\ Len(points) = 2
PairM == Len(points[2])     \* m, the length of current
PairN == Len(points[1])     \* n, the length of previous

\* C1 as stated: for one pair of rows (previous of length n, current of
\* length m) the number of faces is at least max(m, n) and at most m + n.
C1_Original ==
    PairDone => /\ Len(faces) >= Max2(PairM, PairN)
                /\ Len(faces) <= PairM + PairN

\* C1 amended: for one pair of rows the number of faces is at least m when
\* close_figure is true and at least m - 1 when it is false, and at most
\* m*n + n - 1 (m bridging faces, at most n - 1 dog steps per human and at
\* most n - 1 closing steps).
C1_FaceCount ==
    PairDone => /\ Len(faces) >= (IF close_figure THEN PairM ELSE PairM - 1)
                /\ Len(faces) <= PairM * PairN + PairN - 1

\* a finished pair whose face count exceeds m + n
C1_Witness == PairDone /\ Len(faces) > PairM + PairN /\ PairN > 1

\* C2: every face takes its three ids from one pair of consecutive rows,
\* with at least one id from each of the two rows.
C2_FacesWithinPair ==
    \A k \in 1..Len(faces) :
        \E r \in 1..(Len(points) - 1) :
            /\ FaceIds(faces[k]) \subseteq Ids(points[r]) \cup Ids(points[r + 1])
            /\ FaceIds(faces[k]) \cap Ids(points[r]) # {}
            /\ FaceIds(faces[k]) \cap Ids(points[r + 1]) # {}

\* a finished run over three rows with faces in both bands
C2_Witness ==
    /\ pc = "done"
    /\ Len(points) = 3
    /\ \E k \in 1..Len(faces) : FaceIds(faces[k]) \cap Ids(points[1]) # {}
    /\ \E k \in 1..Len(faces) : FaceIds(faces[k]) \cap Ids(points[3]) # {}

\* the input is two identical regular circular rows of length n
IsRingInput(n) == \E k \in 1..2 : points = RingInput(n, k)

\* number of faces that contain both ids a and b
FacesWithEdge(a, b) ==
    Cardinality({ k \in 1..Len(faces) : {a, b} \subseteq FaceIds(faces[k]) })

\* the ring of 2n triangles: every cross edge that occurs is shared by two
\* triangles, every edge between circular neighbours of a row is in one
UnbrokenRing(n) ==
    /\ Len(faces) = 2 * n
    /\ \A a \in Ids(points[1]), b \in Ids(points[2]) :
           FacesWithEdge(a, b) \in {0, 2}
    /\ \A r \in 1..2 : \A c \in 1..n :
           FacesWithEdge(points[r][c].pid, points[r][(c % n) + 1].pid) = 1

\* C3 as stated: with close_figure, two identical regular circular rows of
\* any length n give an unbroken ring of 2n triangles.
C3_Original ==
    \A n \in RingSizes :
        (pc = "done" /\ close_figure /\ IsRingInput(n)) => UnbrokenRing(n)

\* C3 amended: with close_figure, two identical regular circular rows of
\* length n >= 3 give an unbroken ring of 2n triangles.
C3_Ring ==
    \A n \in RingSizes :
        (pc = "done" /\ close_figure /\ IsRingInput(n) /\ n >= 3)
            => UnbrokenRing(n)

\* the closed triangulation of two identical rings of four points is done
C3_Witness == pc = "done" /\ close_figure /\ IsRingInput(4) /\ Len(faces) = 8

\* C4: invert(invert(faces)) = faces; invert(faces) has the length and
\* order of faces with every (p0, p1, p2) turned into (p0, p2, p1); and
\* inverting leaves the list it is given as it was.
C4_InvertInvolution ==
    /\ [](pc = "inverted_twice" =>
            /\ twice_inverted = faces
            /\ Len(inverted_faces) = Len(faces)
            /\ \A k \in 1..Len(faces) :
                   /\ inverted_faces[k][1] = faces[k][1]
                   /\ inverted_faces[k][2] = faces[k][3]
                   /\ inverted_faces[k][3] = faces[k][2])
    /\ [][(pc = "done" \/ pc = "inverted") =>
            (faces' = faces /\ (pc = "inverted" => inverted_faces' = inverted_faces))]_vars

\* a list with a face whose last two ids differ has been inverted twice
C4_Witness ==
    /\ pc = "inverted_twice"
    /\ \E k \in 1..Len(faces) : faces[k][2] # faces[k][3]
    /\ inverted_faces # faces

----------------------------------------------------------------------------
(* Numbers of get_map_points                                               *)
(*                                                                         *)
(* Angles are fixed-point numbers in units of pi/1800 (a tenth of a        *)
(* degree), so that pi, the pixel angles 2*pi*x/nx for nx in {4, 8} and    *)
(* caps given in degrees are exact.  Cosines and the Mollweide factor are  *)
(* fixed-point numbers in units of 1/10000.  Heights are in units of 1e-6. *)
(* A radius is an exact rational [num, den].  A Point is kept in spherical *)
(* form [pid, r, theta, phi], standing for the tuple                       *)
(* (pid, r cos(theta) cos(phi), r sin(theta) cos(phi), r sin(phi)).        *)
(***************************************************************************)

PiU == 1800        \* pi
FlatEps == 1       \* 1e-6, the threshold of the flat-input branch
NaN == 999999      \* nan, a value outside the range of every angle

Abs(a) == IF a < 0 THEN -a ELSE a

\* a / b rounded to the nearest integer, halves away from zero (b > 0)
DivRound(a, b) ==
    IF a >= 0 THEN (2 * a + b) \div (2 * b) ELSE -((2 * (-a) + b) \div (2 * b))

\* int(a / b): the quotient truncated toward zero (b # 0)
DivTrunc(a, b) ==
    IF (a >= 0) = (b > 0) THEN Abs(a) \div Abs(b) ELSE -(Abs(a) \div Abs(b))

\* an odd function given by its values at the arguments t >= 0
Odd(tab, t) == IF t >= 0 THEN tab[t] ELSE -tab[-t]

\* the arguments t = v / r that occur: multiples of pi/4 up to pi
Args == { 0, 450, 900, 1350, 1800 }

\* cos(a), in 1/10000.  cos(pi/2) evaluates to 6.1e-17 in floating point, a
\* positive number: it is kept positive, as the smallest positive value.
Cos(a) ==
    LET tab == [t \in Args |->
                  CASE t = 0 -> 10000 [] t = 450 -> 7071 [] t = 900 -> 1
                    [] t = 1350 -> -7071 [] t = 1800 -> -10000]
    IN  tab[Abs(a)]

\* 2 * arctan(exp(t)) - pi / 2
Gd(t) ==
    Odd([u \in Args |->
           CASE u = 0 -> 0 [] u = 450 -> 410 [] u = 900 -> 665
             [] u = 1350 -> 792 [] u = 1800 -> 851], t)

\* cos(2 * arctan(exp(t)) - pi / 2), in 1/10000
CosGd(t) ==
    LET tab == [u \in Args |->
                  CASE u = 0 -> 10000 [] u = 450 -> 7549 [] u = 900 -> 3985
                    [] u = 1350 -> 1879 [] u = 1800 -> 863]
    IN  tab[Abs(t)]

\* arctan2(y, r) = arctan(t)
ArcTan(t) ==
    Odd([u \in Args |->
           CASE u = 0 -> 0 [] u = 450 -> 381 [] u = 900 -> 575
             [] u = 1350 -> 670 [] u = 1800 -> 723], t)

\* cos(arctan(t)), in 1/10000
CosArcTan(t) ==
    LET tab == [u \in Args |->
                  CASE u = 0 -> 10000 [] u = 450 -> 7864 [] u = 900 -> 5370
                    [] u = 1350 -> 3907 [] u = 1800 -> 3033]
    IN  tab[Abs(t)]

\* Mollweide: aux = t / sqrt(2) lies in (-1, 1) iff |t| < sqrt(2), which is
\* 810.28 angle units
AuxInRange(t) == Abs(t) <= 810

\* Mollweide: arcsin((2 * arcsin(aux) + sin(2 * arcsin(aux))) / pi)
MollPhi(t) == Odd([u \in {0, 450} |-> IF u = 0 THEN 0 ELSE 420], t)

\* Mollweide: cos(phi) for the phi of MollPhi before its rounding to angle
\* units (0.732671 rad at t = pi/4), in 1/10000
CosMollPhi(t) ==
    LET tab == [u \in {0, 450} |-> IF u = 0 THEN 10000 ELSE 7434]
    IN  tab[Abs(t)]

\* Mollweide: pi / (2 * sqrt(2) * sqrt(1 - aux * aux)), in 1/10000
MollFactor(t) == IF t = 0 THEN 11107 ELSE 13356

\* mod_2pi(a): the equivalent to angle a in [-pi, pi)
mod_2pi(a) ==
    LET n == a \div (2 * PiU)
        a0 == a - 2 * PiU * n
    IN  IF a0 < PiU THEN a0 ELSE a0 - 2 * PiU

----------------------------------------------------------------------------
(* projection_functions *)

ProjKinds == { "mercator", "central-cylindrical", "mollweide",
               "equirectangular", "sinusoidal" }

\* v / r with r = nx / (2 * pi)
OverR(v, nx) == (2 * PiU * v) \div nx

get_theta(pt, nx, x, y) ==
    LET tx == OverR(x, nx)
        ty == OverR(y, nx)
    IN  CASE pt \in {"mercator", "central-cylindrical", "equirectangular"} -> tx
          [] pt = "mollweide" ->
               IF ~AuxInRange(ty) THEN NaN
               ELSE IF Abs(tx * MollFactor(ty)) < PiU * 10000
                    THEN DivRound(tx * MollFactor(ty), 10000) ELSE NaN
          [] pt = "sinusoidal" ->
               IF Abs(tx * 10000) < PiU * Abs(Cos(ty))
               THEN (IF Cos(ty) > 0 THEN DivRound(tx * 10000, Cos(ty))
                     ELSE -DivRound(tx * 10000, -Cos(ty)))
               ELSE NaN

get_phi(pt, nx, y) ==
    LET ty == OverR(y, nx)
    IN  CASE pt = "mercator" -> Gd(ty)
          [] pt = "central-cylindrical" -> ArcTan(ty)
          [] pt = "mollweide" -> IF AuxInRange(ty) THEN MollPhi(ty) ELSE NaN
          [] pt \in {"equirectangular", "sinusoidal"} -> ty

\* cos(phi) for phi = get_phi(pt, nx, y), in 1/10000
cos_phi(pt, nx, y) ==
    LET ty == OverR(y, nx)
    IN  CASE pt = "mercator" -> CosGd(ty)
          [] pt = "central-cylindrical" -> CosArcTan(ty)
          [] pt = "mollweide" -> CosMollPhi(ty)
          [] pt \in {"equirectangular", "sinusoidal"} -> Cos(ty)

----------------------------------------------------------------------------
(* Inputs of get_map_points *)

MaxNy == 4          \* rows of the height grid
MaxStartPid == 1    \* the first id handed to get_map_points

Widths == { 4, 8 }  \* nx
HeightPatterns == { "const", "eps", "ramp" }

\* the grids: constant 5; a chequerboard of 0 and 1e-6; a ramp of 2e-6 steps
HeightAt(pattern, nx, jj, ii) ==
    CASE pattern = "const" -> 5000000
      [] pattern = "eps" -> (jj + ii) % 2
      [] pattern = "ramp" -> 2 * (jj * nx + ii)

Grid(pattern, ny, nx) ==
    [jj \in 1..ny |-> [ii \in 1..nx |-> HeightAt(pattern, nx, jj - 1, ii - 1)]]

TargetCounts == { 0, 4, 16 }
Scales == { 2, 50 }                           \* 0.02 and 0.5
CapPolicies == { "none", "auto", "30" }
MeridianLists == { <<>>, <<[pos |-> 0, width |-> 0]>>,
                   <<[pos |-> 900, width |-> 200]>> }
Protrusions == { 1, 2 }

----------------------------------------------------------------------------
(* get_map_points *)

ny == Len(heights)          \* ny, nx = heights.shape
nx == Len(heights[1])

\* heights.min(), heights.max()
hmin == CHOOSE v \in { heights[a][b] : a \in 1..ny, b \in 1..nx } :
            \A a \in 1..ny, b \in 1..nx : v <= heights[a][b]
hmax == CHOOSE v \in { heights[a][b] : a \in 1..ny, b \in 1..nx } :
            \A a \in 1..ny, b \in 1..nx : v >= heights[a][b]

\* mutant of radii: the flat branch forgotten
radii_scaled(jj, ii) ==
    IF hmax - hmin > FlatEps
    THEN [num |-> 100 * (hmax - hmin)
                  + scale * (2 * (heights[jj + 1][ii + 1] - hmin) - (hmax - hmin)),
          den |-> 100 * (hmax - hmin)]
    ELSE [num |-> 100 - scale, den |-> 100]

\* radii[j, i]: 1 + scale * (2 * (heights - hmin) / (hmax - hmin) - 1), or the
\* ones of the flat branch
radii(jj, ii) ==
    IF hmax - hmin > FlatEps
    THEN [num |-> 100 * (hmax - hmin)
                  + scale * (2 * (heights[jj + 1][ii + 1] - hmin) - (hmax - hmin)),
          den |-> 100 * (hmax - hmin)]
    ELSE [num |-> 1, den |-> 1]

\* protrusion * (1 + scale / 2)
rmeridian == [num |-> protrusion * (200 + scale), den |-> 200]

\* float(caps), for the strings that occur
FloatOf(str) == CASE str = "30" -> 30 [] str = "60" -> 60

\* get_phi_cap(caps, heights, ptype)
get_phi_cap ==
    IF caps \in {"auto", "none"}
    THEN get_phi(ptype, nx, ny \div 2)
    ELSE PiU \div 2 - (PiU * FloatOf(caps)) \div 180

n == Sqrt(npoints)          \* n = sqrt(npoints)

\* int(max(1, ny / (3 * n))) if n > 0 else 1
stepy == IF n > 0 THEN Max2(1, ny \div (3 * n)) ELSE 1

y_map == ny \div 2 - j
phi == get_phi(ptype, nx, y_map)

\* mutant of RowSkipped: the cap is not looked at
RowSkipped_nan_only == phi = NaN

\* isnan(phi) or abs(phi) > phi_cap
RowSkipped ==
    \/ phi = NaN
    \/ get_phi_cap # NaN /\ Abs(phi) > get_phi_cap

\* int(max(1, nx / n) * (1 if ptype in [...] else 1 / cphi)) if n > 0 else 1
stepx ==
    IF n > 0
    THEN IF ptype \in {"mollweide", "sinusoidal"}
         THEN Max2(nx, n) \div n
         ELSE DivTrunc(Max2(nx, n) * 10000, n * cos_phi(ptype, nx, y_map))
    ELSE 1

min_meridian_width == OverR(stepx, nx)      \* 2 * pi * stepx / nx

touches_meridians(theta) ==
    \E k \in 1..Len(meridians) :
        Abs(mod_2pi(theta - meridians[k].pos))
            <= Max2(meridians[k].width \div 2, min_meridian_width)

\* Point(pid, r cos(theta) cphi, r sin(theta) cphi, r sphi)
SpherePoint(id, r, theta, ph) == [pid |-> id, r |-> r, theta |-> theta, phi |-> ph]

\* mutant of NextPid: the counter is not advanced
NextPid_stuck(p) == p

\* pid += 1
NextPid(p) == p + 1

InitMap ==
    /\ \E pattern \in HeightPatterns, rows \in 1..MaxNy, cols \in Widths :
           heights = Grid(pattern, rows, cols)
    /\ start_pid \in 0..MaxStartPid
    /\ pid = start_pid
    /\ ptype \in ProjKinds
    /\ npoints \in TargetCounts
    /\ scale \in Scales
    /\ caps \in CapPolicies
    /\ meridians \in MeridianLists
    /\ protrusion \in Protrusions
    /\ points = <<>>
    /\ row = <<>>
    /\ j = 0
    /\ i = 0
    /\ pc = "map_row"
    /\ IdleFaces
    /\ IdleSplit
    /\ IdleCaps

\* for j in range(0, ny, stepy): the latitude of the row, or skip the row
MapRow ==
    /\ pc = "map_row"
    /\ IF j < ny
       THEN IF RowSkipped
            THEN /\ j' = j + stepy
                 /\ UNCHANGED <<pc, row, i>>
            ELSE /\ row' = <<>>
                 /\ i' = 0
                 /\ pc' = "map_col"
                 /\ UNCHANGED j
       ELSE /\ pc' = "map_done"
            /\ UNCHANGED <<j, row, i>>
    /\ UNCHANGED <<points, heights, start_pid, pid, ptype, npoints, scale, caps,
                   meridians, protrusion>>
    /\ UNCHANGED <<fonly, sonly, conly>>

\* for i in range(0, nx, stepx): one sample; after the last, "if row: ..."
MapCol ==
    /\ pc = "map_col"
    /\ IF stepx > 0 /\ i < nx
       THEN LET x_map == i - nx \div 2
                theta == get_theta(ptype, nx, x_map, y_map)
                r == IF touches_meridians(theta) THEN rmeridian ELSE radii(j, i)
            IN  /\ IF theta = NaN
                   THEN UNCHANGED <<row, pid>>
                   ELSE /\ row' = Append(row, SpherePoint(pid, r, theta, phi))
                        /\ pid' = NextPid(pid)
                /\ i' = i + stepx
                /\ UNCHANGED <<points, j, pc>>
       ELSE /\ points' = IF row # <<>> THEN Append(points, row) ELSE points
            /\ j' = j + stepy
            /\ pc' = "map_row"
            /\ UNCHANGED <<row, pid, i>>
    /\ UNCHANGED <<heights, start_pid, ptype, npoints, scale, caps, meridians,
                   protrusion>>
    /\ UNCHANGED <<fonly, sonly, conly>>

NextMap == MapRow \/ MapCol

SpecMap == InitMap /\ [][NextMap]_vars

----------------------------------------------------------------------------
(* Properties of get_map_points *)

RECURSIVE Flatten(_)
Flatten(rows) == IF rows = <<>> THEN <<>> ELSE rows[1] \o Flatten(Tail(rows))

PhiAt(jj) == get_phi(ptype, nx, ny \div 2 - jj)
ThetaAt(jj, ii) == get_theta(ptype, nx, ii - nx \div 2, ny \div 2 - jj)

StepxAt(jj) ==
    IF n > 0
    THEN IF ptype \in {"mollweide", "sinusoidal"}
         THEN Max2(nx, n) \div n
         ELSE DivTrunc(Max2(nx, n) * 10000, n * cos_phi(ptype, nx, ny \div 2 - jj))
    ELSE 1

\* the Points emitted so far, row by row, in emission order
Emitted == Flatten(points) \o (IF pc = "map_col" THEN row ELSE <<>>)

IsFlat == hmax - hmin <= FlatEps
IsOne(r) == r.num = r.den

\* C5: the ids of the emitted Points, in emission order, are start_pid,
\* start_pid + 1, ...: no id is emitted twice, none is left out, and the
\* counter is the next free id.
C5_IdsContiguous ==
    /\ \A k \in 1..Len(Emitted) : Emitted[k].pid = start_pid + k - 1
    /\ pid = start_pid + Len(Emitted)

\* a finished Mollweide run (with undefined samples) of several rows that
\* did not start at id 0
C5_Witness ==
    /\ pc = "map_done"
    /\ ptype = "mollweide"
    /\ start_pid > 0
    /\ Len(points) >= 2
    /\ Len(Emitted) < ny * nx

\* C8 as stated: for a flat height grid every emitted Point has radius 1.
C8_Original == IsFlat => \A k \in 1..Len(Emitted) : IsOne(Emitted[k].r)

\* the Point touches a configured meridian: its angular distance to the
\* position of some meridian is at most half the width of the meridian, or
\* at most the width of one sampling step of its row, 2 * pi * stepx / nx
TouchesMeridian(p) ==
    LET jj == CHOOSE a \in 0..(ny - 1) : PhiAt(a) = p.phi
    IN  \E k \in 1..Len(meridians) :
            Abs(mod_2pi(p.theta - meridians[k].pos))
                <= Max2(meridians[k].width \div 2, OverR(StepxAt(jj), nx))

\* C8 amended: for a flat height grid every emitted Point that does not
\* touch a configured meridian has radius exactly 1, and every emitted
\* Point that touches one has radius protrusion * (1 + scale / 2); with an
\* empty meridian list every Point has radius exactly 1.
C8_FlatRadius ==
    IsFlat => \A k \in 1..Len(Emitted) :
                 IF TouchesMeridian(Emitted[k])
                 THEN Emitted[k].r = rmeridian
                 ELSE IsOne(Emitted[k].r)

\* a finished run on the 4x4 grid of constant 5 of the scenario of the
\* specification, with a meridian configured: some emitted Point touches
\* it and has the radius of the meridian, which is not 1, and some emitted
\* Point does not touch it and has radius 1
C8_Witness ==
    /\ pc = "map_done"
    /\ heights = Grid("const", 4, 4)
    /\ meridians # <<>>
    /\ ~IsOne(rmeridian)
    /\ \E k \in 1..Len(Emitted) :
          TouchesMeridian(Emitted[k]) /\ Emitted[k].r = rmeridian
    /\ \E k \in 1..Len(Emitted) :
          ~TouchesMeridian(Emitted[k]) /\ IsOne(Emitted[k].r)

----------------------------------------------------------------------------
(* stl-split: numbers, triangles and files                                 *)
(*                                                                         *)
(* A number is an exact rational [num, den] in lowest terms with den > 0.  *)
(* The coordinates stored in a file are float32: packing a Python float as *)
(* '<f' rounds it to 24 significant bits, halves to even (F32).  The       *)
(* doubles of the intermediate computations are kept exact.  A raw         *)
(* triangle is the record [normal, v, attr, len]: the normal vector, the   *)
(* three vertices, the attribute count and the number of bytes read (50    *)
(* unless the file ends inside the record).                                *)
(***************************************************************************)

MaxTriangles == 2       \* complete records in an input file
MaxNumber == 1          \* largest value of --number

size_triangle == 50     \* 12 * 4 + 2
size_header == 84       \* header + number of triangles

RECURSIVE GCD(_, _)
GCD(a, b) == IF b = 0 THEN a ELSE GCD(b, a % b)

Rat(a, b) ==
    LET g == GCD(Abs(a), Abs(b))
    IN  IF b > 0 THEN [num |-> a \div g, den |-> b \div g]
        ELSE [num |-> (-a) \div g, den |-> (-b) \div g]
RatOf(k) == [num |-> k, den |-> 1]
RatAdd(q1, q2) == Rat(q1.num * q2.den + q2.num * q1.den, q1.den * q2.den)
RatSub(q1, q2) == Rat(q1.num * q2.den - q2.num * q1.den, q1.den * q2.den)
RatMul(q1, q2) == Rat(q1.num * q2.num, q1.den * q2.den)
RatDiv(q1, q2) == Rat(q1.num * q2.den, q1.den * q2.num)
RatLess(q1, q2) == q1.num * q2.den < q2.num * q1.den
RatLeq(q1, q2) == q1.num * q2.den <= q2.num * q1.den
RatMin3(a, b, c) ==
    IF RatLeq(a, b) /\ RatLeq(a, c) THEN a ELSE IF RatLeq(b, c) THEN b ELSE c
RatMax3(a, b, c) ==
    IF RatLeq(b, a) /\ RatLeq(c, a) THEN a ELSE IF RatLeq(c, b) THEN b ELSE c

\* the power of two s with 2^23 <= (a / b) * s, for 0 < a / b < 2^23
RECURSIVE Scale24(_, _, _)
Scale24(a, b, s) == IF a * s >= 8388608 * b THEN s ELSE Scale24(a, b, 2 * s)

\* struct.pack('<f', q): the nearest number with a 24-bit mantissa
F32(q) ==
    IF q.num = 0 THEN q
    ELSE LET a == Abs(q.num)
             s == Scale24(a, q.den, 1)
             f == (a * s) \div q.den
             rem == a * s - f * q.den
             mant == IF 2 * rem < q.den THEN f
                     ELSE IF 2 * rem > q.den THEN f + 1
                     ELSE IF f % 2 = 0 THEN f ELSE f + 1
         IN  Rat(IF q.num < 0 THEN -mant ELSE mant, s)

V(x, y, z) == <<RatOf(x), RatOf(y), RatOf(z)>>

Triangle(nrm, v1, v2, v3, len) ==
    [normal |-> nrm, v |-> <<v1, v2, v3>>, attr |-> 0, len |-> len]

\* Triangles of the input meshes, all with a unit normal: above, below,
\* resting on z = 0, two crossing z = 0 (one with a vertex at z = 0) and one
\* crossing it with two coincident vertices
TrianglePool ==
    { Triangle(<<0, 0, 1>>, V(0, 0, 1), V(2, 0, 1), V(0, 2, 1), size_triangle),
      Triangle(<<0, 0, 1>>, V(0, 0, -1), V(2, 0, -1), V(0, 2, -1), size_triangle),
      Triangle(<<0, 0, 1>>, V(0, 0, 0), V(2, 0, 1), V(0, 2, 0), size_triangle),
      Triangle(<<0, 0, 1>>, V(0, 0, 1), V(2, 0, -1), V(0, 2, 1), size_triangle),
      Triangle(<<0, 0, 1>>, V(0, 0, -1), V(2, 0, 0), V(0, 2, 1), size_triangle),
      Triangle(<<0, 0, 1>>, V(0, 0, 1), V(0, 0, 1), V(0, 2, -1), size_triangle) }

\* the bytes of a last record cut short by the end of the file
Truncated(len) ==
    Triangle(<<0, 0, 1>>, V(0, 0, 1), V(2, 0, -1), V(0, 2, 1), len)

\* An stl file: hdr bytes of header and count (84 when complete), the
\* declared count, the complete records and the bytes of a last partial one
StlFile(hdr, count, recs, tail) ==
    [isfile |-> TRUE, hdr |-> hdr, count |-> count, recs |-> recs, tail |-> tail]

\* what stands for the input when there is no file at the path
NoFile == [isfile |-> FALSE, hdr |-> 0, count |-> 0, recs |-> <<>>, tail |-> 0]

getsize(f) == f.hdr + size_triangle * Len(f.recs) + f.tail

\* struct.unpack('<I', ...read(84)[-4:]) raises struct.error under 4 bytes
ValidStlFails(f) == f.hdr < 4

\* mutant of valid_stl: every file passes
valid_stl_lax(f) == TRUE

\* valid_stl(fname): size_content / size_triangle == ntriangles
valid_stl(f) ==
    LET ntriangles == f.count
        size_content == getsize(f) - size_header
    IN  size_content = ntriangles * size_triangle

\* get_triangles(fname): iter(lambda: fin.read(size_triangle), b'')
get_triangles(f) ==
    f.recs \o (IF f.tail > 0 THEN <<Truncated(f.tail)>> ELSE <<>>)

\* unpack(triangle) is struct.unpack('<9f', triangle[12:48]): it raises
\* struct.error unless the slice has its 36 bytes
CanUnpack(t) == t.len >= 48
unpack(t) == t.v

\* z_mean(fname): z = (n * z + v1_z + v2_z + v3_z) / (n + 3) per triangle
RECURSIVE ZMeanLoop(_, _, _)
ZMeanLoop(ts, z, k) ==
    IF ts = <<>> THEN z
    ELSE LET v == unpack(ts[1])
             zs == RatAdd(RatAdd(v[1][3], v[2][3]), v[3][3])
         IN  ZMeanLoop(Tail(ts),
                       RatDiv(RatAdd(RatMul(RatOf(k), z), zs), RatOf(k + 3)),
                       k + 3)

z_mean(f) == ZMeanLoop(get_triangles(f), RatOf(0), 0)
ZMeanFails(f) == \E k \in 1..Len(get_triangles(f)) : ~CanUnpack(get_triangles(f)[k])

\* float(zcut), for the strings that occur
ZcutStrings == { "0", "0.1", "auto", "abc" }
IsFloat(str) == str \in { "0", "0.1" }
FloatOfZcut(str) == CASE str = "0" -> Rat(0, 1) [] str = "0.1" -> Rat(1, 10)

\* mutant of find_class: a triangle that only touches the plane from above
\* is not N
find_class_strict(number, zc, k, t) ==
    IF number = 0
    THEN LET v == unpack(t)
         IN  IF RatLess(zc, RatMin3(v[1][3], v[2][3], v[3][3])) THEN "N"
             ELSE IF RatLeq(RatMax3(v[1][3], v[2][3], v[3][3]), zc) THEN "S"
             ELSE "discarded"
    ELSE IF k < number THEN "head" ELSE "tail"

\* mutant of find_class: triangle number `number` is still in the head
find_class_inclusive(number, zc, k, t) ==
    IF number = 0
    THEN LET v == unpack(t)
         IN  IF RatLeq(zc, RatMin3(v[1][3], v[2][3], v[3][3])) THEN "N"
             ELSE IF RatLeq(RatMax3(v[1][3], v[2][3], v[3][3]), zc) THEN "S"
             ELSE "discarded"
    ELSE IF k <= number THEN "head" ELSE "tail"

\* class_selector(number, zcut)(n, triangle)
find_class(number, zc, k, t) ==
    IF number = 0
    THEN LET v == unpack(t)
         IN  IF RatLeq(zc, RatMin3(v[1][3], v[2][3], v[3][3])) THEN "N"
             ELSE IF RatLeq(RatMax3(v[1][3], v[2][3], v[3][3]), zc) THEN "S"
             ELSE "discarded"
    ELSE IF k < number THEN "head" ELSE "tail"

\* find_class raises struct.error on a record that cannot be unpacked
FindClassFails(number, t) == number = 0 /\ ~CanUnpack(t)

\* pq_at_zcut(p, q, zcut): the point between p and q that has z = zcut
pq_at_zcut(p, q, zc) ==
    LET pq == <<RatSub(q[1], p[1]), RatSub(q[2], p[2]), RatSub(q[3], p[3])>>
        a == RatDiv(RatSub(zc, p[3]), pq[3])
    IN  << RatAdd(p[1], RatMul(a, pq[1])), RatAdd(p[2], RatMul(a, pq[2])), zc >>

\* mutant of pack: the last two vertices exchanged
pack_swapped(p0, p1, p2) ==
    Triangle(<<0, 0, 0>>,
             <<F32(p0[1]), F32(p0[2]), F32(p0[3])>>,
             <<F32(p2[1]), F32(p2[2]), F32(p2[3])>>,
             <<F32(p1[1]), F32(p1[2]), F32(p1[3])>>, size_triangle)

\* pack(p0, p1, p2): zero normal, the vertices as float32, zero attribute
pack(p0, p1, p2) ==
    Triangle(<<0, 0, 0>>,
             <<F32(p0[1]), F32(p0[2]), F32(p0[3])>>,
             <<F32(p1[1]), F32(p1[2]), F32(p1[3])>>,
             <<F32(p2[1]), F32(p2[2]), F32(p2[3])>>, size_triangle)

\* mutant of hemisphere: the sides are exchanged
hemisphere_flipped(p, zc) == IF RatLess(zc, p[3]) THEN "S" ELSE "N"

\* 'N' if p[2] > zcut else 'S'
hemisphere(p, zc) == IF RatLess(zc, p[3]) THEN "N" ELSE "S"

\* the first loop of cut: the list of (point, tag), walking v1, v2, v3, v1
RECURSIVE CutPoints(_, _, _, _, _)
CutPoints(ps, zc, pts, hemisphere_last, p_last) ==
    IF ps = <<>> THEN pts
    ELSE LET p == ps[1]
             hem == hemisphere(p, zc)
             pts1 == IF hemisphere_last # None /\ hem # hemisphere_last
                     THEN Append(pts, [p |-> pq_at_zcut(p_last, p, zc), tag |-> "x"])
                     ELSE pts
             entry == [p |-> p, tag |-> hem]
             pts2 == IF \E k \in 1..Len(pts1) : pts1[k] = entry
                     THEN pts1 ELSE Append(pts1, entry)
         IN  CutPoints(Tail(ps), zc, pts2, hem, p)

cut_points(t, zc) ==
    LET v == unpack(t)
    IN  CutPoints(<<v[1], v[2], v[3], v[1]>>, zc, <<>>, None, None)

\* the second loop of cut indexes points[0..4]: IndexError on a shorter list
CutFails(t, zc) == Len(cut_points(t, zc)) < 5

\* cut(triangle, zcut): the pairs (class, piece), in the order yielded
cut(t, zc) ==
    LET pts == cut_points(t, zc)
        piece(k) ==                       \* k is the 0-based i
            LET il == (k - 1) % 5
                ir == (k + 1) % 5
                irr == (k + 2) % 5
                i2 == IF pts[ir + 1].tag = "x" THEN ir ELSE irr
            IN  [tclass |-> pts[k + 1].tag,
                 piece |-> pack(pts[k + 1].p, pts[i2 + 1].p, pts[il + 1].p)]
    IN  SelectSeq([k \in 1..5 |-> IF pts[k].tag # "x" THEN piece(k - 1)
                                  ELSE [tclass |-> "x", piece |-> None]],
                  LAMBDA e : e.tclass # "x")


----------------------------------------------------------------------------
(* stl-split: main                                                         *)
(*                                                                         *)
(* A path is a sequence of tokens, the last one being the extension.       *)
(* triangles_per_class is the dict as the sequence of its items, in        *)
(* insertion order; written is the sequence of the files written so far;   *)
(* exit is None while the program runs and [status, msg] afterwards;       *)
(* existing is the set of the other files there are when it starts.        *)
(***************************************************************************)

\* the input path and --name: "m.stl" with no name, "m_S.stl" with name "m"
NameCases == { [file |-> <<"m", ".stl">>, name |-> <<>>],
               [file |-> <<"m", "_S", ".stl">>, name |-> <<"m">>] }

\* the input files: complete ones, ones ending inside a record, ones with a
\* wrong declared count, and two that end inside the header
InputFiles ==
    { StlFile(size_header, Len(recs) + c, recs, tail) :
        recs \in UNION { [1..len -> TrianglePool] : len \in 0..MaxTriangles },
        tail \in {0, 20, 48}, c \in 0..1 }
    \cup { StlFile(3, 0, <<>>, 0), StlFile(50, 0, <<>>, 0) }

\* args.file.rsplit('.', 1)[0]
rsplit(path) == SubSeq(path, 1, Len(path) - 1)

Suffix(tclass) ==
    CASE tclass = "N" -> "_N" [] tclass = "S" -> "_S"
      [] tclass = "discarded" -> "_discarded"
      [] tclass = "head" -> "_head" [] tclass = "tail" -> "_tail"

\* name = args.name or args.file.rsplit('.', 1)[0]
name == IF args.name # <<>> THEN args.name ELSE rsplit(args.file)

\* '%s_%s.stl' % (name, tclass)
output(tclass) == name \o <<Suffix(tclass), ".stl">>

isfile(path) ==
    \/ path \in existing
    \/ input.isfile /\ path = args.file
    \/ \E k \in 1..Len(written) : written[k].path = path

\* check_if_exists(output), of the module maps: it returns when there is no
\* such file; when there is one it either ends the run or returns
check_if_exists(path) == IF isfile(path) THEN {"exit", "return"} ELSE {"return"}

\* triangles_per_class.setdefault(tclass, []).append(triangle)
setdefault_append(tpc, tclass, triangle) ==
    IF \E k \in 1..Len(tpc) : tpc[k].tclass = tclass
    THEN [k \in 1..Len(tpc) |->
            IF tpc[k].tclass = tclass
            THEN [tpc[k] EXCEPT !.triangles = Append(@, triangle)]
            ELSE tpc[k]]
    ELSE Append(tpc, [tclass |-> tclass, triangles |-> <<triangle>>])

RECURSIVE append_pieces(_, _)
append_pieces(tpc, pieces) ==
    IF pieces = <<>> THEN tpc
    ELSE append_pieces(setdefault_append(tpc, pieces[1].tclass, pieces[1].piece),
                       Tail(pieces))

Exit(status, msg) ==
    /\ exit' = [status |-> status, msg |-> msg]
    /\ pc' = "exited"

InitSplit ==
    /\ \E nc \in NameCases :
         args \in [ file : {nc.file}, name : {nc.name}, zcut : ZcutStrings,
                    discard_border : BOOLEAN, number : 0..MaxNumber,
                    overwrite : BOOLEAN, ignore_check : BOOLEAN ]
    /\ input \in {NoFile} \cup InputFiles
    /\ existing \in SUBSET ({ <<"m", "_S", ".stl">> } \ {args.file})
    /\ zcut = None
    /\ triangles_per_class = None
    /\ written = <<>>
    /\ exit = None
    /\ pc = "main"
    /\ i = None
    /\ j = None
    /\ points = None
    /\ IdleFaces
    /\ IdleMap
    /\ IdleCaps

\* main, up to the call of get_zcut: the file must be there and look valid
CheckInput ==
    /\ pc = "main"
    /\ IF ~input.isfile
       THEN Exit(1, "File does not exist.")
       ELSE IF ValidStlFails(input)
       THEN Exit(1, "struct.error")
       ELSE IF ~valid_stl(input) /\ ~args.ignore_check
       THEN Exit(1, "Cancelling")
       ELSE pc' = "get_zcut" /\ exit' = exit
    /\ UNCHANGED <<points, j, i, fonly, monly, conly, args, input, existing, zcut,
                   triangles_per_class, written>>

\* zcut = get_zcut(args.zcut, args.file)
GetZcut ==
    /\ pc = "get_zcut"
    /\ IF IsFloat(args.zcut)
       THEN /\ zcut' = FloatOfZcut(args.zcut)
            /\ pc' = "extract"
            /\ exit' = exit
       ELSE IF args.zcut = "auto"
       THEN IF ZMeanFails(input)
            THEN Exit(1, "struct.error") /\ zcut' = zcut
            ELSE /\ zcut' = z_mean(input)
                 /\ pc' = "extract"
                 /\ exit' = exit
       ELSE Exit(1, "zcut can be auto or a float.") /\ zcut' = zcut
    /\ i' = IF pc' = "extract" THEN 0 ELSE i
    /\ triangles_per_class' = IF pc' = "extract" THEN <<>> ELSE triangles_per_class
    /\ UNCHANGED <<points, j, fonly, monly, conly, args, input, existing, written>>

\* mutant of kept_whole: --discard-border is not looked at
kept_whole_ignoring_flag(tclass, separate_discarded) == tclass # "discarded"

\* tclass != 'discarded' or separate_discarded: the triangle goes as it is
\* to the list of its class
kept_whole(tclass, separate_discarded) ==
    tclass # "discarded" \/ separate_discarded

\* one turn of the loop of extract_triangles, on triangle number i
Extract ==
    /\ pc = "extract"
    /\ i < Len(get_triangles(input))
    /\ LET triangle == get_triangles(input)[i + 1]
       IN  IF FindClassFails(args.number, triangle)
           THEN Exit(1, "struct.error") /\ UNCHANGED <<i, triangles_per_class>>
           ELSE LET tclass == find_class(args.number, zcut, i, triangle)
                IN  IF kept_whole(tclass, args.discard_border)
                    THEN /\ triangles_per_class' =
                              setdefault_append(triangles_per_class, tclass, triangle)
                         /\ i' = i + 1
                         /\ UNCHANGED <<pc, exit>>
                    ELSE IF CutFails(triangle, zcut)
                    THEN Exit(1, "IndexError") /\ UNCHANGED <<i, triangles_per_class>>
                    ELSE /\ triangles_per_class' =
                              append_pieces(triangles_per_class, cut(triangle, zcut))
                         /\ i' = i + 1
                         /\ UNCHANGED <<pc, exit>>
    /\ UNCHANGED <<points, j, fonly, monly, conly, args, input, existing, zcut, written>>

\* extract_triangles returns; main goes on with the loop over the classes
ExtractReturn ==
    /\ pc = "extract"
    /\ i = Len(get_triangles(input))
    /\ pc' = "write"
    /\ j' = 0
    /\ UNCHANGED <<points, i, fonly, monly, conly, sonly>>

\* one turn of the loop of main over triangles_per_class.items(), on item j
WriteOutput ==
    /\ pc = "write"
    /\ j < Len(triangles_per_class)
    /\ LET item == triangles_per_class[j + 1]
       IN  \E outcome \in (IF args.overwrite THEN {"return"}
                           ELSE check_if_exists(output(item.tclass))) :
             IF outcome = "exit"
             THEN Exit(1, "exists") /\ UNCHANGED <<j, written>>
             ELSE /\ written' = Append(written,
                                       [path |-> output(item.tclass),
                                        header |-> size_header,
                                        count |-> Len(item.triangles),
                                        triangles |-> item.triangles])
                  /\ j' = j + 1
                  /\ UNCHANGED <<pc, exit>>
    /\ UNCHANGED <<points, i, fonly, monly, conly, args, input, existing, zcut,
                   triangles_per_class>>

\* main returns
Return ==
    /\ pc = "write"
    /\ j = Len(triangles_per_class)
    /\ Exit(0, "")
    /\ UNCHANGED <<points, j, i, fonly, monly, conly, args, input, existing, zcut,
                   triangles_per_class, written>>

NextSplit == CheckInput \/ GetZcut \/ Extract \/ ExtractReturn \/ WriteOutput \/ Return

SpecSplit == InitSplit /\ [][NextSplit]_vars


----------------------------------------------------------------------------
(* Claims C6, C7, C9, C10: stl-split                                      *)

Geometric == args.number = 0

\* the plane passes strictly between the lowest and the highest vertex
Straddles(t, zc) ==
    /\ RatLess(RatMin3(t.v[1][3], t.v[2][3], t.v[3][3]), zc)
    /\ RatLess(zc, RatMax3(t.v[1][3], t.v[2][3], t.v[3][3]))

\* the triangles of a class of triangles_per_class (none if it has no item)
ClassItems(tclass) ==
    SelectSeq(triangles_per_class, LAMBDA item : item.tclass = tclass)
ClassTriangles(tclass) ==
    IF ClassItems(tclass) = <<>> THEN <<>> ELSE ClassItems(tclass)[1].triangles

TotalTriangles ==
    SumSeq([k \in 1..Len(triangles_per_class) |->
                Len(triangles_per_class[k].triangles)])

\* what the first k input triangles should amount to: one each, or the
\* pieces of cut for a straddling one
ExpectedCount(k) ==
    SumSeq([nt \in 1..k |->
                IF Straddles(get_triangles(input)[nt], zcut)
                THEN Len(cut(get_triangles(input)[nt], zcut)) ELSE 1])

AllVertices(ts, P(_)) ==
    \A k \in 1..Len(ts) : \A nv \in 1..3 : P(ts[k].v[nv][3])

CountsAddUp == TotalTriangles = ExpectedCount(i)

\* C6 as stated: in geometric mode without --discard-border every vertex
\* of class N has z >= zcut, every vertex of class S has z <= zcut, and
\* the number of output triangles is the number of non-straddling input
\* triangles plus the number of pieces cut yields for the straddling ones
C6_Original ==
    (pc \in {"extract", "write"} /\ Geometric /\ ~args.discard_border) =>
        /\ AllVertices(ClassTriangles("N"), LAMBDA z : RatLeq(zcut, z))
        /\ AllVertices(ClassTriangles("S"), LAMBDA z : RatLeq(z, zcut))
        /\ CountsAddUp

\* C6, amended: in geometric mode without --discard-border every vertex of
\* class N has z >= zcut or z equal to zcut rounded to float32, every
\* vertex of class S has z <= zcut or z equal to zcut rounded to float32,
\* and the number of output triangles is the number of non-straddling input
\* triangles plus the number of pieces cut yields for the straddling ones
C6_SidesWithinRounding ==
    (pc \in {"extract", "write"} /\ Geometric /\ ~args.discard_border) =>
        /\ AllVertices(ClassTriangles("N"),
                       LAMBDA z : RatLeq(zcut, z) \/ z = F32(zcut))
        /\ AllVertices(ClassTriangles("S"),
                       LAMBDA z : RatLeq(z, zcut) \/ z = F32(zcut))
        /\ CountsAddUp

\* a straddling triangle was cut at a zcut that is no float32, after a
\* triangle that was left whole, and both classes hold triangles
C6_Witness ==
    /\ pc = "write" /\ Geometric /\ ~args.discard_border
    /\ F32(zcut) # zcut
    /\ Len(get_triangles(input)) = 2
    /\ ~Straddles(get_triangles(input)[1], zcut)
    /\ Straddles(get_triangles(input)[2], zcut)
    /\ Len(ClassTriangles("N")) >= 2
    /\ Len(ClassTriangles("S")) >= 1

NoneStraddles ==
    \A k \in 1..Len(get_triangles(input)) :
        /\ CanUnpack(get_triangles(input)[k])
        /\ ~Straddles(get_triangles(input)[k], zcut)

InNorth(t) == RatLeq(zcut, RatMin3(t.v[1][3], t.v[2][3], t.v[3][3]))
NotInNorth(t) == ~InNorth(t)

\* the files main writes for the items of triangles_per_class
FilesOf(tpc) ==
    [k \in 1..Len(tpc) |-> [path |-> output(tpc[k].tclass),
                            header |-> size_header,
                            count |-> Len(tpc[k].triangles),
                            triangles |-> tpc[k].triangles]]

\* C7: in geometric mode, when no input triangle straddles the plane, the
\* classes N and S partition the input: N holds the input triangles with
\* min z >= zcut and S the other ones, unchanged and in input order, there
\* is no other class, the counts add up to the input count, and a run that
\* ends well has written exactly these classes
C7_Partition ==
    (pc \in {"write", "exited"} /\ Geometric
        /\ (pc = "exited" => exit.status = 0) /\ NoneStraddles) =>
        /\ ClassTriangles("N") = SelectSeq(get_triangles(input), InNorth)
        /\ ClassTriangles("S") = SelectSeq(get_triangles(input), NotInNorth)
        /\ \A k \in 1..Len(triangles_per_class) :
              /\ triangles_per_class[k].tclass \in {"N", "S"}
              /\ triangles_per_class[k].triangles # <<>>
        /\ TotalTriangles = Len(get_triangles(input))
        /\ pc = "exited" => written = FilesOf(triangles_per_class)

\* a run on two triangles, none straddling, one on each side, ended well
C7_Witness ==
    /\ pc = "exited" /\ exit.status = 0 /\ Geometric /\ NoneStraddles
    /\ Len(get_triangles(input)) = 2
    /\ Len(written) = 2
    /\ written[1].count = 1 /\ written[2].count = 1

\* the declared count of a file disagrees with its size
Inconsistent(f) == getsize(f) # size_header + size_triangle * f.count

Rejected ==
    \/ ~input.isfile
    \/ ~ValidStlFails(input) /\ Inconsistent(input) /\ ~args.ignore_check

\* C9: when the input file does not exist, or its declared count disagrees
\* with its size and --ignore-check is not given, main exits nonzero with
\* a diagnostic before any triangle is classified and with no file
\* written; with --ignore-check the inconsistent file passes the check and
\* the run goes on to get_zcut, and never ends with that diagnostic
C9_RejectsBeforeProcessing ==
    /\ [](Rejected =>
            \/ pc = "main"
            \/ /\ pc = "exited"
               /\ exit.status # 0
               /\ exit.msg \in {"File does not exist.", "Cancelling"}
               /\ zcut = None
               /\ triangles_per_class = None
               /\ written = <<>>)
    /\ []((pc = "exited" /\ ~Rejected) =>
            exit.msg \notin {"File does not exist.", "Cancelling"})
    /\ [][(pc = "main" /\ input.isfile /\ ~ValidStlFails(input)
            /\ Inconsistent(input) /\ args.ignore_check) =>
                pc' = "get_zcut"]_vars

\* an inconsistent file was refused
C9_Witness ==
    /\ pc = "exited" /\ input.isfile /\ Inconsistent(input)
    /\ ~args.ignore_check
    /\ exit = [status |-> 1, msg |-> "Cancelling"]
    /\ written = <<>>

\* C10 as stated: in every mode, if the input ends inside a triangle
\* record the run fails and no output file is written, so no truncated
\* record reaches an output file
C10_Original ==
    (input.isfile /\ input.tail > 0) =>
        /\ written = <<>>
        /\ pc = "exited" => exit.status # 0


----------------------------------------------------------------------------
(* Claims C11 to C14: stl-split                                            *)

\* the input triangles that extract_triangles has gone through
Processed == SubSeq(get_triangles(input), 1, i)

StraddlesZcut(t) == Straddles(t, zcut)
InSouthOnly(t) ==
    /\ ~InNorth(t)
    /\ RatLeq(RatMax3(t.v[1][3], t.v[2][3], t.v[3][3]), zcut)

\* C11: with --discard-border in geometric mode every straddling triangle
\* is in class discarded, unchanged, no piece of cut is in any class, and
\* N and S hold only unchanged input triangles that lie on one side of the
\* plane (N: min z >= zcut, S: max z <= zcut)
C11_DiscardBorder ==
    (pc \in {"extract", "write"} /\ Geometric /\ args.discard_border) =>
        /\ ClassTriangles("discarded") = SelectSeq(Processed, StraddlesZcut)
        /\ ClassTriangles("N") = SelectSeq(Processed, InNorth)
        /\ ClassTriangles("S") = SelectSeq(Processed, InSouthOnly)
        /\ \A k \in 1..Len(triangles_per_class) :
              triangles_per_class[k].tclass \in {"N", "S", "discarded"}
        /\ TotalTriangles = i

\* a straddling triangle was put aside after a triangle of class N
C11_Witness ==
    /\ pc = "write" /\ Geometric /\ args.discard_border
    /\ Len(ClassTriangles("discarded")) = 1
    /\ Len(ClassTriangles("N")) = 1
    /\ StraddlesZcut(get_triangles(input)[2])


Min2(a, b) == IF a <= b THEN a ELSE b

\* C12: with --number N, N nonzero, class head holds the first min(N, total)
\* input triangles and class tail all the other ones, unchanged and in
\* input order, so that head followed by tail is the input; there is no
\* other class and no piece of cut, whatever zcut is
C12_HeadTail ==
    (pc \in {"extract", "write"} /\ ~Geometric) =>
        /\ ClassTriangles("head") = SubSeq(Processed, 1, Min2(args.number, i))
        /\ ClassTriangles("tail") = SubSeq(Processed, args.number + 1, i)
        /\ ClassTriangles("head") \o ClassTriangles("tail") = Processed
        /\ \A k \in 1..Len(triangles_per_class) :
              triangles_per_class[k].tclass \in {"head", "tail"}
        /\ pc = "write" => Processed = get_triangles(input)

\* a straddling triangle went whole to the head and another one to the tail
C12_Witness ==
    /\ pc = "write" /\ args.number = 1
    /\ Len(ClassTriangles("head")) = 1
    /\ Len(ClassTriangles("tail")) >= 1
    /\ StraddlesZcut(ClassTriangles("head")[1])
    /\ StraddlesZcut(ClassTriangles("tail")[1])


\* C13 as stated: whatever the options are, no output path that main
\* writes is the input path, so the input file is left as it was
C13_Original ==
    \A k \in 1..Len(written) : written[k].path # args.file


\* the number of bytes of a written file
WrittenSize(w) ==
    w.header + SumSeq([k \in 1..Len(w.triangles) |-> w.triangles[k].len])

\* C14 as stated: every written file is a header of 84 bytes holding the
\* number of the records that follow, every record has exactly 50 bytes
\* (the ones built by pack with a zero normal and a zero attribute), so
\* the file has 84 + 50 * count bytes and valid_stl accepts it
C14_Original ==
    \A k \in 1..Len(written) :
        /\ written[k].header = size_header
        /\ written[k].count = Len(written[k].triangles)
        /\ \A nt \in 1..Len(written[k].triangles) :
              /\ written[k].triangles[nt].len = size_triangle
              /\ written[k].triangles[nt].normal = <<0, 0, 0>> =>
                    written[k].triangles[nt].attr = 0
        /\ WrittenSize(written[k]) = size_header + size_triangle * written[k].count


----------------------------------------------------------------------------
(* Claims C15 and C16: get_map_points and projection_functions            *)

\* the stepped grid: rows range(0, ny, stepy), columns range(0, nx, step)
\* with the column step of the row
InRowRange(jj) == jj % stepy = 0
InColRange(jj, ii) == StepxAt(jj) > 0 /\ ii % StepxAt(jj) = 0

\* the row is one the claim says is skipped
CappedAt(jj) ==
    \/ PhiAt(jj) = NaN
    \/ get_phi_cap # NaN /\ Abs(PhiAt(jj)) > get_phi_cap

\* one Point per sample of row jj that has a defined theta, as <<theta, phi>>
SamplesOfRow(jj) ==
    LET all == [c \in 1..nx |->
                  IF InColRange(jj, c - 1) THEN <<ThetaAt(jj, c - 1), PhiAt(jj)>>
                  ELSE <<NaN, NaN>>]
    IN  SelectSeq(all, LAMBDA e : e[1] # NaN)

SamplesOfGrid ==
    LET all == [k \in 1..ny |->
                  IF InRowRange(k - 1) /\ ~CappedAt(k - 1)
                  THEN SamplesOfRow(k - 1) ELSE <<>>]
    IN  SelectSeq(all, LAMBDA e : e # <<>>)

AnglesOf(rows) ==
    [k \in 1..Len(rows) |->
        [c \in 1..Len(rows[k]) |-> <<rows[k][c].theta, rows[k][c].phi>>]]

\* C15: when get_map_points returns, the rows it returns hold exactly one
\* Point, in order, for every sample of the stepped grid whose row is not
\* skipped (phi defined and |phi| <= phi_cap) and whose theta is defined,
\* and nothing else: a skipped sample gives no Point, takes no id and does
\* not stop the sampling, and no empty row is returned
C15_SkipsSilently ==
    /\ pc = "map_done" =>
          /\ AnglesOf(points) = SamplesOfGrid
          /\ pid = start_pid + Len(Flatten(points))
    /\ \A k \in 1..Len(points) : points[k] # <<>>

\* a run that skipped a row without phi and, in a later row, a sample
\* without theta, and went on to emit Points after them
C15_Witness ==
    /\ pc = "map_done"
    /\ InRowRange(0) /\ PhiAt(0) = NaN
    /\ \E jj \in 0..ny - 1, ii \in 0..nx - 1 :
          /\ InRowRange(jj) /\ ~CappedAt(jj) /\ InColRange(jj, ii)
          /\ ThetaAt(jj, ii) = NaN
          /\ \E i2 \in ii + 1..nx - 1 : InColRange(jj, i2) /\ ThetaAt(jj, i2) # NaN
    /\ Len(points) >= 1


\* C16 as stated: at every pixel offset of the grid (x = i - nx // 2,
\* y = ny // 2 - j), for every projection kind, a defined theta lies in
\* (-pi, pi] and a defined phi lies in [-pi / 2, pi / 2]
C16_Original ==
    \A jj \in 0..ny - 1 :
        /\ PhiAt(jj) # NaN => Abs(PhiAt(jj)) * 2 <= PiU
        /\ \A ii \in 0..nx - 1 :
              ThetaAt(jj, ii) # NaN =>
                  -PiU < ThetaAt(jj, ii) /\ ThetaAt(jj, ii) <= PiU


----------------------------------------------------------------------------
(* Claims C17 to C20: get_faces                                            *)

\* the 0-based index in row r of the point with this id
IndexOf(r, id) == (CHOOSE k \in 1..Len(r) : r[k].pid = id) - 1

\* the pair of rows (previous jj, current jj + 1) that face f belongs to
PairOf(f) ==
    CHOOSE jj \in 1..Len(points) - 1 :
        f[1] \in Ids(points[jj + 1]) /\ f[3] \in Ids(points[jj])

\* Twice the signed area of face f in the (angle, row) plane, in units of
\* 1 / (m * n) of a turn.  The previous row is at height 0 and the current
\* one at height 1; point k of a row of length L is at angle k / L; the
\* second vertex is ahead of the vertex of its own row by the steps that
\* lead to it going forward (none if it is that same point).
SignedArea2(f) ==
    LET prev == points[PairOf(f)]
        cur == points[PairOf(f) + 1]
    IN  IF f[2] \in Ids(prev)
        THEN -(((IndexOf(prev, f[2]) - IndexOf(prev, f[3])) % Len(prev)) * Len(cur))
        ELSE -(((IndexOf(cur, f[2]) - IndexOf(cur, f[1])) % Len(cur)) * Len(prev))

\* C17 as stated: every face has its first id in the current row and its
\* third in the previous row, and all faces have the orientation of an
\* advance face (negative signed area in the (angle, row) plane), for all
\* row lengths and both values of close_figure
C17_Original ==
    \A k \in 1..Len(faces) :
        /\ \E jj \in 1..Len(points) - 1 :
              faces[k][1] \in Ids(points[jj + 1]) /\ faces[k][3] \in Ids(points[jj])
        /\ SignedArea2(faces[k]) < 0


\* the advances the dog has made for the human at i (pc is walk or bridge)
Advances ==
    Cardinality({ k \in 1..Len(faces) :
                    faces[k][1] = h.pid /\ faces[k][2] \in Ids(row_previous) })

\* the distance from the human to the point the dog looked at last
DistWalking == dist2(norm(h), norm(row_previous[dog_walking + 1]))

\* A measure of the progress of get_faces: the pair of rows, then the
\* human, then the advances of the dog for this human, then the bridge;
\* after the last human the steps of the closing walk.
PairWidth ==
    (Len(Flatten(points)) + 2) * (Len(Flatten(points)) + 2) + 3
Progress ==
    LET humanWidth == Len(row_previous) + 2
    IN  CASE pc = "for_j" -> j * PairWidth
          [] pc = "for_i" -> j * PairWidth + 1 + i * humanWidth
          [] pc = "walk" -> j * PairWidth + 2 + i * humanWidth + Advances
          [] pc = "bridge" ->
                j * PairWidth + 1 + i * humanWidth + Len(row_previous) + 1
          [] pc = "close" ->
                j * PairWidth + 2 + Len(row_current) * humanWidth
                  + (IF dog = 0 THEN Len(row_previous) ELSE dog)
          [] pc = "done" -> (Len(points) + 1) * PairWidth
          [] pc = "inverted" -> (Len(points) + 1) * PairWidth + 1
          [] pc = "inverted_twice" -> (Len(points) + 1) * PairWidth + 2

\* C18: the dog advances only to a point that is strictly closer to the
\* human (an equal distance stops the walk), so the walk for one human
\* makes at most n - 1 advances; a step of the closing walk moves the dog
\* forward until it is back at 0, at most n - 1 steps; and get_faces
\* terminates: every step increases a bounded measure of progress
C18_StrictAdvance ==
    /\ []((pc \in {"walk", "bridge"}) => Advances <= Len(row_previous) - 1)
    /\ []((pc = "bridge") => ~Less(DistWalking, dist))
    /\ [][(pc = "walk" /\ pc' = "walk") =>
            /\ dog' = (dog + 1) % Len(row_previous)
            /\ Less(dist', dist)
            /\ Len(faces') = Len(faces) + 1]_vars
    /\ [][(pc = "walk" /\ pc' = "bridge") => (dog' = dog /\ faces' = faces)]_vars
    /\ [][(pc = "close" /\ pc' = "close") =>
            /\ dog # 0
            /\ dog' = (dog + 1) % Len(row_previous)
            /\ (dog' = 0 \/ dog' > dog)]_vars
    /\ [][Progress' > Progress]_vars
    /\ [](Progress <= (Len(points) + 1) * PairWidth + 2)

\* a walk stopped by a point exactly as far from the human as the dog is,
\* in a row of three points
C18_Witness ==
    /\ pc = "bridge" /\ Len(row_previous) = 3
    /\ dog_walking # dog
    /\ DistWalking.num * dist.den = dist.num * DistWalking.den


\* the two points are strictly on opposite sides of the plane
Opposite(p, q, zc) ==
    \/ RatLess(p[3], zc) /\ RatLess(zc, q[3])
    \/ RatLess(q[3], zc) /\ RatLess(zc, p[3])

\* the edges of a triangle, in the order cut walks them
Edges == { <<1, 2>>, <<2, 3>>, <<3, 1>> }

\* the vertex as pack writes it
PackedVertex(p) == <<F32(p[1]), F32(p[2]), F32(p[3])>>

\* what C19 says of cut on one straddling triangle
CutAsStated(t, zc) ==
    LET v == unpack(t)
        pts == cut_points(t, zc)
        crossing == { e \in Edges : Opposite(v[e[1]], v[e[2]], zc) }
        xs == { k \in 1..Len(pts) : pts[k].tag = "x" }
        onPlane == \E nv \in 1..3 : v[nv][3] = zc
        count(tag) ==
            Len(SelectSeq(cut(t, zc), LAMBDA e : e.tclass = tag))
    IN  /\ Cardinality(xs) = Cardinality(crossing)
        /\ \A k \in xs : pts[k].p[3] = zc
        /\ \A e \in crossing :
              \E k \in xs : pts[k].p = pq_at_zcut(v[e[1]], v[e[2]], zc)
        /\ Len(pts) = IF onPlane THEN 4 ELSE 5
        /\ ~CutFails(t, zc)
        /\ count("N") \in 1..2
        /\ count("S") \in 1..2
        /\ \A k \in 1..Len(cut(t, zc)) : \A nv \in 1..3 :
              LET e == cut(t, zc)[k]
              IN  \/ \E x \in xs : e.piece.v[nv] = PackedVertex(pts[x].p)
                  \/ \E o \in 1..3 :
                        /\ hemisphere(v[o], zc) = e.tclass
                        /\ e.piece.v[nv] = PackedVertex(v[o])

\* C19 as stated: for every straddling triangle cut inserts exactly one
\* interpolated vertex, with z equal to zcut, on each edge whose endpoints
\* are on opposite sides of the plane, and tiles the cycle (4 vertices when
\* an original vertex lies on the plane, 5 otherwise) into 1 or 2 triangles
\* tagged N and 1 or 2 tagged S, each using only original vertices of its
\* own side and interpolated vertices
C19_Original ==
    (pc \in {"extract", "write"} /\ Geometric /\ ~args.discard_border) =>
        \A k \in 1..Len(get_triangles(input)) :
            LET t == get_triangles(input)[k]
            IN  (CanUnpack(t) /\ Straddles(t, zcut)) => CutAsStated(t, zcut)


\* face f has both the first and the last point of row r among its ids
JoinsEnds(f, r) ==
    {r[1].pid, r[Len(r)].pid} \subseteq {f[1], f[2], f[3]}

\* C20 as stated: with close_figure false, for rows of length >= 3, no face
\* contains both the last and the first point of the current row, and no
\* face contains both the last and the first point of the previous row
C20_Original ==
    (close_figure = FALSE) =>
        \A k \in 1..Len(faces) : \A jj \in 1..Len(points) :
            Len(points[jj]) >= 3 => ~JoinsEnds(faces[k], points[jj])


----------------------------------------------------------------------------
(* Claims C21, C22, C26, C27: get_faces                                    *)

\* the faces emitted for the pair of rows (previous jj, current jj + 1)
FacesOfPair(jj) ==
    SelectSeq(faces, LAMBDA f : f[1] \in Ids(points[jj + 1])
                                /\ f[3] \in Ids(points[jj]))

\* the fan around the one point of prev: (cur[i], cur[(i+1) mod m], P)
Fan(prev, cur, closed) ==
    [k \in 1..(IF closed THEN Len(cur) ELSE Len(cur) - 1) |->
        <<cur[k].pid, cur[(k % Len(cur)) + 1].pid, prev[1].pid>>]

\* C21: when the previous row has exactly one point P and the current row
\* has m >= 2 points, the dog never advances (it stays at index 0) and the
\* faces of the pair are a fan around P: with close_figure true exactly
\* the m faces (current[i], current[(i+1) mod m], P), i = 0..m-1, in this
\* order, and with close_figure false exactly the first m - 1 of them
C21_FanAroundPoint ==
    /\ (pc \in {"for_i", "walk", "bridge", "close"}
          /\ Len(row_previous) = 1) => dog = 0
    /\ pc = "done" =>
          \A jj \in 1..Len(points) - 1 :
              (Len(points[jj]) = 1 /\ Len(points[jj + 1]) >= 2) =>
                  FacesOfPair(jj) = Fan(points[jj], points[jj + 1], close_figure)

\* a closed fan of three faces around a row of one point was emitted
C21_Witness ==
    /\ pc = "done" /\ close_figure = TRUE
    /\ Len(points[1]) = 1 /\ Len(points[2]) = 3
    /\ Len(FacesOfPair(1)) = 3


\* the index in row jj of the point the dog was at after the last advance
\* made for the pair (jj, jj + 1); 0 if the dog made none
EndDog(jj) ==
    LET adv == SelectSeq(FacesOfPair(jj), LAMBDA f : f[2] \in Ids(points[jj]))
    IN  IF adv = <<>> THEN 0 ELSE IndexOf(points[jj], adv[Len(adv)][2])

\* C22 as stated: in a Patch of three or more rows the dog index at the
\* start of processing pair (j, j+1) equals the dog index at the end of
\* processing pair (j-1, j), for both values of close_figure
C22_Original ==
    [][(pc = "for_j" /\ pc' = "for_i" /\ j >= 2) => dog' = dog]_vars

\* C22, amended: the dog starts every pair of rows at index 0, whatever
\* its index was at the end of the pair before; with close_figure true the
\* dog is back at index 0 when a pair ends, so the two indices are equal,
\* and with close_figure false the index at the end is the one reached by
\* the last advance, which is not carried to the next pair
C22_DogRestarts ==
    /\ [][(pc = "for_j" /\ pc' = "for_i") => dog' = 0]_vars
    /\ []((pc = "for_j" /\ close_figure = TRUE) => dog = 0)
    /\ []((pc = "for_j" /\ close_figure = FALSE /\ j >= 2)
            => dog = EndDog(j - 1))
    /\ []((pc = "for_i" /\ i = 0) => dog = 0)

\* the second pair of an open band starts with the dog at 0 although the
\* first pair ended with the dog elsewhere
C22_Witness ==
    /\ pc = "for_i" /\ i = 0 /\ j = 2 /\ close_figure = FALSE
    /\ EndDog(1) # 0
    /\ dog = 0


----------------------------------------------------------------------------
(* get_cap_points and get_sphere_points                                    *)
(*                                                                         *)
(* Angles are in units of pi/1800 as above.  The caps of the model end at  *)
(* a whole number of degrees chosen so that every ring of linspace is at a *)
(* whole number of degrees.  A Point of a ring is kept in spherical form   *)
(* [pid, r, theta, phi], theta being an exact rational; the Point put at   *)
(* an extreme, Point(pid, 0, 0, z), has on_axis set.                       *)
(***************************************************************************)

\* cos of a whole number of degrees 0..90, in 1/1000000
CosTable ==
    << 1000000, 999848, 999391, 998630, 997564, 996195, 994522, 992546,
       990268, 987688, 984808, 981627, 978148, 974370, 970296, 965926,
       961262, 956305, 951057, 945519, 939693, 933580, 927184, 920505,
       913545, 906308, 898794, 891007, 882948, 874620, 866025, 857167,
       848048, 838671, 829038, 819152, 809017, 798636, 788011, 777146,
       766044, 754710, 743145, 731354, 719340, 707107, 694658, 681998,
       669131, 656059, 642788, 629320, 615661, 601815, 587785, 573576,
       559193, 544639, 529919, 515038, 500000, 484810, 469472, 453990,
       438371, 422618, 406737, 390731, 374607, 358368, 342020, 325568,
       309017, 292372, 275637, 258819, 241922, 224951, 207912, 190809,
       173648, 156434, 139173, 121869, 104528, 87156, 69756, 52336, 34899,
       17452, 0 >>

\* cos(a) and sin(a), in 1/1000000, for |a| <= pi / 2
Cos6(a) == CosTable[Abs(a) \div 10 + 1]
Sin6(a) == IF a >= 0 THEN Cos6(PiU \div 2 - a) ELSE -Cos6(PiU \div 2 + a)

\* the angles phi_max of the model and the radii r
CapAngles ==
    { 900, 810, 720, 630, 450, 360, 270, -270, -360, -450, -630, -720, -810,
      -900 }
SphereRadii == { 1, 2 }

\* get_cap_points: phi_start, phi_end = pi / 2, phi_max for the north cap
\* (phi_max > 0) and phi_max, -pi / 2 for the south one
phi_start == IF phi_max > 0 THEN PiU \div 2 ELSE phi_max
phi_end == IF phi_max > 0 THEN phi_max ELSE -(PiU \div 2)

\* 10 * abs(phi_end - phi_start), the angle in radians, in thousandths
ten_abs_span == (Abs(phi_end - phi_start) * 31416) \div PiU

\* nphi = max(10, 10 * abs(phi_end - phi_start)): phi_start and phi_end are
\* C doubles, so the compiled max gives a double for every span, 10.0
\* included.  This is the number of samples linspace makes of it where it
\* accepts a float: the value truncated to an integer.
nphi == Max2(10000, ten_abs_span) \div 1000

\* linspace(start, stop, num)[k], for samples that are whole angle units
linspace(start, stop, num, k) == start + (k * (stop - start)) \div (num - 1)

PoleEps == 1       \* 1e-6, the threshold of the test for an extreme

\* abs(z - r) < 1e-6, with z = r * sin(phi), in 1/1000000
at_extreme_z(ph) == Abs(sphere_r * Sin6(ph) - sphere_r * 1000000) < PoleEps

\* int(100 * cos(phi)).  At 60 degrees cos is 1/2; the angle linspace
\* yields counting down from pi / 2 is a little above 60 degrees in
\* floating point, which makes 100 * cos(phi) a little less than 50.
int_100_cos(ph) ==
    IF Abs(ph) = PiU \div 3 /\ phi_start = PiU \div 2 THEN 49
    ELSE Cos6(ph) \div 10000

CapPoint(id, th, ph, axis) ==
    [pid |-> id, r |-> sphere_r, theta |-> th, phi |-> ph, on_axis |-> axis]

\* the row of one ring: one Point at an extreme, else a Point for every
\* theta of linspace(-pi, pi, max(9, int(100 * cos(phi))))
sphere_row(ph, id) ==
    IF at_extreme_z(ph)
    THEN << CapPoint(id, Rat(0, 1), ph, TRUE) >>
    ELSE LET ntheta == Max2(9, int_100_cos(ph))
         IN  [k \in 1..ntheta |->
                CapPoint(id + k - 1,
                         Rat(2 * PiU * (k - 1) - PiU * (ntheta - 1), ntheta - 1),
                         ph, FALSE)]

InitCap ==
    /\ sphere_r \in SphereRadii
    /\ phi_max \in CapAngles
    /\ start_pid \in 0..MaxStartPid
    /\ pid = start_pid
    /\ points = <<>>
    /\ j = 0
    /\ pc = "get_cap_points"
    /\ i = None /\ row = None
    /\ heights = None /\ ptype = None /\ npoints = None /\ scale = None
    /\ caps = None /\ meridians = None /\ protrusion = None
    /\ sample_points = None /\ at_extreme = None
    /\ IdleFaces
    /\ IdleSplit

\* get_cap_points calls get_sphere_points, which calls linspace for phi
\* with the float nphi: linspace truncates it (numpy before 1.18) or refuses
\* it with a TypeError (numpy 1.18 and later)
GetCapPoints ==
    /\ pc = "get_cap_points"
    /\ \/ pc' = "get_sphere_points"
       \/ pc' = "TypeError"
    /\ UNCHANGED <<points, j, i, fonly, monly, sonly, conly>>

\* one turn of the loop over phi of get_sphere_points, on ring j
SphereRing ==
    /\ pc = "get_sphere_points"
    /\ j < nphi
    /\ LET ph == linspace(phi_start, phi_end, nphi, j)
       IN  /\ points' = Append(points, sphere_row(ph, pid))
           /\ pid' = pid + Len(sphere_row(ph, pid))
    /\ j' = j + 1
    /\ UNCHANGED <<pc, i, fonly, heights, start_pid, ptype, npoints, scale, caps,
                   meridians, protrusion, row, sonly, conly>>

\* get_sphere_points returns points
SphereReturn ==
    /\ pc = "get_sphere_points"
    /\ j = nphi
    /\ pc' = "cap_done"
    /\ UNCHANGED <<points, j, i, fonly, monly, sonly, conly>>

NextCap == GetCapPoints \/ SphereRing \/ SphereReturn

SpecCap == InitCap /\ [][NextCap]_vars

----------------------------------------------------------------------------
(* Claim C23: get_cap_points                                               *)

\* ring k (1-based) of the cap lies at a pole
RingAtPole(k) ==
    Abs(linspace(phi_start, phi_end, nphi, k - 1)) = PiU \div 2

\* C23 as stated: for the north cap and for the south cap the ring that
\* coincides with the pole is a row of exactly one Point, every other ring
\* is a row of at least 9 Points, and at least 10 rings are emitted in all
C23_Original ==
    /\ \A k \in 1..Len(points) :
          IF RingAtPole(k) THEN Len(points[k]) = 1 ELSE Len(points[k]) >= 9
    /\ pc = "cap_done" => Len(points) >= 10


----------------------------------------------------------------------------
(* get_logo_points                                                         *)
(*                                                                         *)
(* The distance of a pixel to the centre of the image is kept squared and  *)
(* in half pixels, so that it is an integer.  A Point is kept as           *)
(* [pid, r, theta, phi]: r is an exact rational, theta stands for          *)
(* sign * arctan2(y, x) and phi for sign * (pi/2 - span * sqrt(d2) / N).   *)
(***************************************************************************)

MaxLogo == 4        \* rows and columns of the image of the logo

LogoPatterns == { "eps", "ramp" }
LogoAngles == { 630, -630 }

\* sign_phi = 1 if phi_max > 0 else -1
sign_phi == IF phi_max > 0 THEN 1 ELSE -1

\* (i - nx_2)**2 + (j - ny_2)**2, times 4
dist2_centre(jj, ii) ==
    (2 * ii - nx) * (2 * ii - nx) + (2 * jj - ny) * (2 * jj - ny)

\* dist > 1, with dist = sqrt(...) / N_2 and N_2 = max(nx, ny) / 2
outside_circle(jj, ii) == dist2_centre(jj, ii) > Max2(nx, ny) * Max2(nx, ny)

\* the Point of pixel (j, i)
logo_point(id, jj, ii) ==
    [pid |-> id,
     r |-> Rat(protrusion * 1000000 + (protrusion - 1) * heights[jj + 1][ii + 1],
               1000000),
     theta |-> [sign |-> sign_phi, y |-> ny - 2 * jj, x |-> 2 * ii - nx],
     phi |-> [sign |-> sign_phi, span |-> PiU \div 2 - Abs(phi_max),
              d2 |-> dist2_centre(jj, ii), N |-> Max2(nx, ny)]]

\* mutant of pid_after_row: the ids of a dropped row are not taken back
pid_after_row_kept(id, rw) == id

\* if len(row) > 1: ... else: pid -= len(row)
pid_after_row(id, rw) == IF Len(rw) > 1 THEN id ELSE id - Len(rw)

InitLogo ==
    /\ \E pattern \in LogoPatterns, rows \in 1..MaxLogo, cols \in 1..MaxLogo :
           heights = Grid(pattern, rows, cols)
    /\ phi_max \in LogoAngles
    /\ protrusion \in Protrusions
    /\ start_pid \in 0..MaxStartPid
    /\ pid = start_pid
    /\ points = <<>>
    /\ row = <<>>
    /\ j = 0
    /\ i = 0
    /\ pc = "logo_row"
    /\ ptype = None /\ npoints = None /\ scale = None /\ caps = None
    /\ meridians = None
    /\ sphere_r = None /\ sample_points = None /\ at_extreme = None
    /\ IdleFaces
    /\ IdleSplit

\* for j in range(ny): row = []
LogoRow ==
    /\ pc = "logo_row"
    /\ IF j < ny
       THEN row' = <<>> /\ i' = 0 /\ pc' = "logo_col"
       ELSE pc' = "logo_done" /\ UNCHANGED <<row, i>>
    /\ UNCHANGED <<points, j, pid, heights, start_pid, ptype, npoints, scale,
                   caps, meridians, protrusion, phi_max, sphere_r,
                   sample_points, at_extreme>>
    /\ UNCHANGED <<fonly, sonly>>

\* for i in range(nx): one pixel of the row, and after the last one the
\* row is kept or dropped
LogoCol ==
    /\ pc = "logo_col"
    /\ IF i < nx
       THEN /\ IF outside_circle(j, i)
               THEN UNCHANGED <<row, pid>>
               ELSE /\ row' = Append(row, logo_point(pid, j, i))
                    /\ pid' = pid + 1
            /\ i' = i + 1
            /\ UNCHANGED <<points, j, pc>>
       ELSE /\ points' = IF Len(row) > 1 THEN Append(points, row) ELSE points
            /\ pid' = pid_after_row(pid, row)
            /\ j' = j + 1
            /\ pc' = "logo_row"
            /\ UNCHANGED <<row, i>>
    /\ UNCHANGED <<heights, start_pid, ptype, npoints, scale, caps, meridians,
                   protrusion, phi_max, sphere_r, sample_points, at_extreme>>
    /\ UNCHANGED <<fonly, sonly>>

NextLogo == LogoRow \/ LogoCol

SpecLogo == InitLogo /\ [][NextLogo]_vars

----------------------------------------------------------------------------
(* Claim C24: get_logo_points                                              *)

\* the pixels of row jj of the image that are inside the circle
InsideCount(jj) == Cardinality({ ii \in 0..nx - 1 : ~outside_circle(jj, ii) })

\* the ids of the Points of the rows, read row by row
PidsOf(rows) == [k \in 1..Len(Flatten(rows)) |-> Flatten(rows)[k].pid]

\* C24: get_logo_points returns only rows of at least 2 Points, and the
\* ids of the returned Points, read row by row, are start_id, start_id + 1,
\* ... with no gap and no repeat, whatever rows were dropped; the rows
\* returned are the rows of the image with at least 2 pixels inside the
\* circle, and between two rows the counter is the next free id
C24_LogoIdsContiguous ==
    /\ \A k \in 1..Len(points) : Len(points[k]) >= 2
    /\ PidsOf(points) = [k \in 1..Len(Flatten(points)) |-> start_pid + k - 1]
    /\ pc \in {"logo_row", "logo_done"} =>
          /\ pid = start_pid + Len(Flatten(points))
          /\ Len(points) = Cardinality({ jj \in 0..j - 1 : InsideCount(jj) >= 2 })

\* a row with one pixel inside the circle was dropped and a later row kept
C24_Witness ==
    /\ pc = "logo_done"
    /\ \E jj \in 0..ny - 1 :
          /\ InsideCount(jj) = 1
          /\ \E j2 \in jj + 1..ny - 1 : InsideCount(j2) >= 2
    /\ Len(points) >= 1


----------------------------------------------------------------------------
(* points_at_extreme                                                       *)
(*                                                                         *)
(* The Points of the patches of the model lie on the axes of the (x, y)    *)
(* plane or in the directions of (3, 4) and (-3, 4), at distances that are *)
(* whole numbers, so that rxy and arctan2 are exact.                       *)
(***************************************************************************)

MaxPatchRows == 3   \* rows of a patch given to points_at_extreme

\* the rows a patch is made of, as the (x, y) of their Points: a pole, rings
\* of 4 Points of radius 1, 2 and 5, a ring of radius 5 with a Point twice
\* (as linspace(-pi, pi) gives both ends), and a row of uneven radius
RowShapes ==
    { << <<0, 0>> >>,
      << <<1, 0>>, <<0, 1>>, <<-1, 0>>, <<0, -1>> >>,
      << <<0, -2>>, <<2, 0>>, <<0, 2>>, <<-2, 0>> >>,
      << <<-5, 0>>, <<0, -5>>, <<3, 4>>, <<-3, 4>>, <<-5, 0>> >>,
      << <<3, 4>>, <<1, 0>> >> }

\* the patch of these shapes: ids from 0, row k at height z = k
RECURSIVE MkPatch(_, _, _)
MkPatch(shapes, pid0, z) ==
    IF shapes = <<>> THEN <<>>
    ELSE << [c \in 1..Len(shapes[1]) |->
               Point(pid0 + c - 1, shapes[1][c][1], shapes[1][c][2], z)] >>
         \o MkPatch(Tail(shapes), pid0 + Len(shapes[1]), z + 1)

Patches ==
    { MkPatch(shapes, 0, 0) :
        shapes \in UNION { [1..k -> RowShapes] : k \in 1..MaxPatchRows } }

\* sqrt(x*x + y*y)
rxy(p) == Sqrt(p.x * p.x + p.y * p.y)

\* arctan2(y, x), in angle units, for the directions of the model
arctan2(y, x) ==
    CASE y = 0 /\ x >= 0 -> 0
      [] y = 0 /\ x < 0 -> PiU
      [] x = 0 /\ y > 0 -> PiU \div 2
      [] x = 0 /\ y < 0 -> -(PiU \div 2)
      [] x = 3 /\ y = 4 -> 531
      [] x = -3 /\ y = 4 -> 1269

\* sample_points = sample_points or points[1]: IndexError when the list
\* is empty and the patch has one row only
sample_fails == sample_points = <<>> /\ Len(points) < 2
sample == IF sample_points # <<>> THEN sample_points ELSE points[2]

\* mutant of above_limit: a Point at the limit is taken too
above_limit_or_at(p) ==
    rxy(p) * Len(sample) >= SumSeq([k \in 1..Len(sample) |-> rxy(sample[k])])

\* rxy(p) > rxy_limit, with rxy_limit = sum(rxy(p) for p in sample_points)
\* / len(sample_points)
above_limit(p) ==
    rxy(p) * Len(sample) > SumSeq([k \in 1..Len(sample) |-> rxy(sample[k])])

\* sorted(..., key=lambda p: arctan2(p[2], p[1])): a stable sort, done by
\* inserting the elements one by one after the ones with a key not greater
RECURSIVE sorted(_, _)
sorted(todo, done) ==
    IF todo = <<>> THEN done
    ELSE LET p == todo[1]
             before == Cardinality({ k \in 1..Len(done) :
                          arctan2(done[k].y, done[k].x) <= arctan2(p.y, p.x) })
         IN  sorted(Tail(todo),
                    SubSeq(done, 1, before) \o <<p>>
                        \o SubSeq(done, before + 1, Len(done)))

points_at_extreme == sorted(SelectSeq(Flatten(points), above_limit), <<>>)

InitExtreme ==
    /\ points \in Patches
    /\ sample_points \in {<<>>} \cup { points[k] : k \in 1..Len(points) }
    /\ at_extreme = <<>>
    /\ pc = "points_at_extreme"
    /\ sphere_r = None /\ phi_max = None
    /\ j = None /\ i = None
    /\ IdleFaces
    /\ IdleMap
    /\ IdleSplit

\* the call of points_at_extreme(points, sample_points)
PointsAtExtreme ==
    /\ pc = "points_at_extreme"
    /\ IF sample_fails
       THEN pc' = "IndexError" /\ at_extreme' = at_extreme
       ELSE pc' = "extreme_done" /\ at_extreme' = points_at_extreme
    /\ UNCHANGED <<points, j, i, fonly, monly, sonly, sphere_r, phi_max,
                   sample_points>>

NextExtreme == PointsAtExtreme

SpecExtreme == InitExtreme /\ [][NextExtreme]_vars

----------------------------------------------------------------------------
(* Claim C25: points_at_extreme                                            *)

\* the largest planar radius of a Point of the patch
MaxRxy ==
    CHOOSE v \in { rxy(Flatten(points)[k]) : k \in 1..Len(Flatten(points)) } :
        \A k \in 1..Len(Flatten(points)) : rxy(Flatten(points)[k]) <= v

\* row k is the boundary row: all its Points have the largest planar
\* radius of the patch, and no Point of another row has it
IsBoundaryRow(k) ==
    /\ \A c \in 1..Len(points[k]) : rxy(points[k][c]) = MaxRxy
    /\ \A k2 \in 1..Len(points) : \A c \in 1..Len(points[k2]) :
          rxy(points[k2][c]) = MaxRxy => k2 = k

SeqToSet(s) == { s[k] : k \in 1..Len(s) }

AzimuthSorted(s) ==
    \A k \in 1..Len(s) - 1 :
        arctan2(s[k].y, s[k].x) <= arctan2(s[k + 1].y, s[k + 1].x)

NoRepeat(s) == \A a, b \in 1..Len(s) : s[a].pid = s[b].pid => a = b

\* C25 as stated: points_at_extreme applied to a Patch (with the default
\* sample_points) returns exactly the Points of the single boundary Row,
\* the Row of largest planar radius, ordered by non-decreasing azimuth,
\* each one an existing Point of the Patch, unchanged, none twice
C25_Original ==
    (pc = "extreme_done" /\ sample_points = <<>>) =>
        /\ \A k \in 1..Len(points) :
              IsBoundaryRow(k) => SeqToSet(at_extreme) = SeqToSet(points[k])
        /\ AzimuthSorted(at_extreme)
        /\ SeqToSet(at_extreme) \subseteq SeqToSet(Flatten(points))
        /\ NoRepeat(at_extreme)

\* the mean planar radius of the Points of row k, times the length of row k
SumRxy(rw) == SumSeq([c \in 1..Len(rw) |-> rxy(rw[c])])

\* the sample that sets the limit: sample_points, or the second row
LimitRow == IF sample_points # <<>> THEN sample_points ELSE points[2]

\* C25, amended: points_at_extreme returns exactly the Points of the Patch
\* whose planar radius is strictly greater than the mean planar radius of
\* sample_points (of the second Row of the Patch when sample_points is
\* empty), whatever Rows they are in, ordered by non-decreasing azimuth,
\* Points of equal azimuth in the order of the Patch, each one an existing
\* Point of the Patch, unchanged, none twice; it is the single boundary Row
\* when that Row alone lies above the limit
C25_AboveSampleMean ==
    pc = "extreme_done" =>
        /\ SeqToSet(at_extreme) =
              { p \in SeqToSet(Flatten(points)) :
                  rxy(p) * Len(LimitRow) > SumRxy(LimitRow) }
        /\ AzimuthSorted(at_extreme)
        /\ NoRepeat(at_extreme)
        /\ \A a, b \in 1..Len(at_extreme) :
              (a < b /\ arctan2(at_extreme[a].y, at_extreme[a].x)
                          = arctan2(at_extreme[b].y, at_extreme[b].x))
                  => at_extreme[a].pid < at_extreme[b].pid
        /\ \A k \in 1..Len(points) :
              (/\ \A c \in 1..Len(points[k]) :
                     rxy(points[k][c]) * Len(LimitRow) > SumRxy(LimitRow)
               /\ \A k2 \in 1..Len(points) : \A c \in 1..Len(points[k2]) :
                     k2 # k => rxy(points[k2][c]) * Len(LimitRow) <= SumRxy(LimitRow))
                  => SeqToSet(at_extreme) = SeqToSet(points[k])

\* a patch of three rings given with its default sample: the Points of two
\* rows come back, sorted, the ones of equal azimuth in patch order
C25_Witness ==
    /\ pc = "extreme_done" /\ sample_points = <<>>
    /\ Len(points) = 3
    /\ \E k \in 1..3 : IsBoundaryRow(k) /\ Len(at_extreme) > Len(points[k])
    /\ \E a \in 1..Len(at_extreme) - 1 :
          arctan2(at_extreme[a].y, at_extreme[a].x)
              = arctan2(at_extreme[a + 1].y, at_extreme[a + 1].x)


----------------------------------------------------------------------------
(* Claims C26 and C27: get_faces                                           *)

\* the faces of pair jj that move the dog: walk faces and closing faces
AdvanceCount(jj) ==
    Len(SelectSeq(FacesOfPair(jj), LAMBDA f : f[2] \in Ids(points[jj])))

\* C26: with close_figure true the dog is back at index 0 of the previous
\* row when a pair of rows is finished, so for every finished pair the
\* number of faces that move the dog (walk faces and closing faces) is a
\* multiple of n, and the pair has m + k * n faces for an integer k >= 0
C26_DogBackAtZero ==
    (close_figure = TRUE /\ pc \in {"for_j", "done"}) =>
        /\ dog = 0
        /\ \A jj \in 1..j - 1 :
              /\ AdvanceCount(jj) % Len(points[jj]) = 0
              /\ Len(FacesOfPair(jj)) = Len(points[jj + 1]) + AdvanceCount(jj)

\* a closed pair ended with closing faces after the last bridging face,
\* the dog having gone once around a previous row of at least 2 points
C26_Witness ==
    /\ pc = "done" /\ close_figure = TRUE /\ Len(points) = 2
    /\ PairN >= 2 /\ PairM >= 2
    /\ AdvanceCount(1) = PairN
    /\ \E a, b \in 1..Len(faces) :
          /\ a < b
          /\ faces[a][1] = points[2][PairM].pid /\ faces[a][2] = points[2][1].pid
          /\ faces[b][1] = points[2][1].pid /\ faces[b][2] \in Ids(points[1])


\* C27 as stated: the ids of the rows being pairwise distinct, every face
\* emitted by get_faces has three pairwise distinct ids, for all row
\* lengths m, n >= 1 and both values of close_figure
C27_Original ==
    \A k \in 1..Len(faces) : Cardinality(FaceIds(faces[k])) = 3


----------------------------------------------------------------------------
(* Claims C28 to C30: stl-split                                            *)

\* C28 as stated: for every triangle that class_selector classifies as
\* straddling, also with a vertex on the plane or with two coincident
\* vertices, cut builds a cycle of exactly 5 points and completes without
\* an index error, so extract_triangles never fails on a record of 50 bytes
C28_Original ==
    /\ (pc \in {"extract", "write"} /\ Geometric) =>
          \A k \in 1..Len(get_triangles(input)) :
              LET t == get_triangles(input)[k]
              IN  (CanUnpack(t) /\ Straddles(t, zcut)) =>
                      Len(cut_points(t, zcut)) = 5
    /\ pc = "exited" => exit.msg # "IndexError"


\* (b - a) x (c - a), the normal of the triangle a, b, c, not normalised
CrossOf(a, b, c) ==
    LET u == <<RatSub(b[1], a[1]), RatSub(b[2], a[2]), RatSub(b[3], a[3])>>
        w == <<RatSub(c[1], a[1]), RatSub(c[2], a[2]), RatSub(c[3], a[3])>>
    IN  << RatSub(RatMul(u[2], w[3]), RatMul(u[3], w[2])),
           RatSub(RatMul(u[3], w[1]), RatMul(u[1], w[3])),
           RatSub(RatMul(u[1], w[2]), RatMul(u[2], w[1])) >>

DotOf(a, b) ==
    RatAdd(RatAdd(RatMul(a[1], b[1]), RatMul(a[2], b[2])), RatMul(a[3], b[3]))

NormalOf(t) == CrossOf(t.v[1], t.v[2], t.v[3])

----------------------------------------------------------------------------
(* cut, applied to one triangle                                            *)

\* the triangles over (0,0), (2,0), (0,2) with every arrangement of the
\* heights -1, 0, 1 of the three vertices, and the ones of TrianglePool
CutPool ==
    { Triangle(<<0, 0, 1>>, V(0, 0, z1), V(2, 0, z2), V(0, 2, z3), size_triangle) :
        z1 \in -1..1, z2 \in -1..1, z3 \in -1..1 }
    \cup TrianglePool

CutPlanes == { RatOf(0), Rat(1, 10), Rat(-1, 2) }

InitCut ==
    /\ input \in { StlFile(size_header, 1, <<t>>, 0) : t \in CutPool }
    /\ zcut \in CutPlanes
    /\ triangles_per_class = <<>>
    /\ pc = "class_selector"
    /\ args = None /\ existing = None /\ written = None /\ exit = None
    /\ i = None /\ j = None /\ points = None
    /\ IdleFaces
    /\ IdleMap
    /\ IdleCaps

\* extract_triangles on the one triangle, in geometric mode without
\* --discard-border: the triangle as it is, or its pieces
CutTriangle ==
    /\ pc = "class_selector"
    /\ LET triangle == get_triangles(input)[1]
           tclass == find_class(0, zcut, 0, triangle)
       IN  IF tclass # "discarded"
           THEN /\ triangles_per_class' =
                     setdefault_append(triangles_per_class, tclass, triangle)
                /\ pc' = "whole"
           ELSE IF CutFails(triangle, zcut)
           THEN pc' = "IndexError" /\ UNCHANGED triangles_per_class
           ELSE /\ triangles_per_class' =
                     append_pieces(triangles_per_class, cut(triangle, zcut))
                /\ pc' = "cut_done"
    /\ UNCHANGED <<points, j, i, fonly, monly, conly, args, input, existing,
                   zcut, written, exit>>

NextCut == CutTriangle

SpecCut == InitCut /\ [][NextCut]_vars

----------------------------------------------------------------------------
(* Claim C29: cut                                                          *)

\* every triangle filed in triangles_per_class, whatever its class
AllFiled ==
    LET RECURSIVE Cat(_)
        Cat(tpc) == IF tpc = <<>> THEN <<>>
                    ELSE tpc[1].triangles \o Cat(Tail(tpc))
    IN  Cat(triangles_per_class)

\* C29: every piece yielded by cut keeps the orientation of the original
\* triangle: its vertices are three points of the vertex cycle built by
\* walking v1, v2, v3, written in the cyclic order of the cycle (points[i],
\* then points[i2] one or two places ahead, then points[il] just behind),
\* so that the normal of the piece points to the side the normal of the
\* triangle points to (or is zero, for a piece with a repeated vertex),
\* for every arrangement of the vertices above, below and on the plane
C29_KeepsOrientation ==
    pc = "cut_done" =>
        LET t == get_triangles(input)[1]
            pts == cut_points(t, zcut)
        IN  /\ Len(AllFiled) = 3
            /\ \A e \in 1..Len(AllFiled) :
                  \E a \in 0..4, s \in 1..2 :
                      LET pa == pts[a + 1].p
                          pb == pts[((a + s) % 5) + 1].p
                          pn == pts[((a + 4) % 5) + 1].p
                          dot == DotOf(CrossOf(pa, pb, pn), NormalOf(t))
                      IN  /\ AllFiled[e].v = << PackedVertex(pa),
                                  PackedVertex(pb), PackedVertex(pn) >>
                          /\ RatLeq(RatOf(0), dot)
                          /\ dot = RatOf(0) => (pa = pb \/ pb = pn \/ pa = pn)

\* a triangle with two vertices above the plane and one below was cut into
\* three pieces at a zcut that is no float32
C29_Witness ==
    /\ pc = "cut_done"
    /\ F32(zcut) # zcut
    /\ RatLess(zcut, get_triangles(input)[1].v[1][3])
    /\ RatLess(get_triangles(input)[1].v[2][3], zcut)
    /\ RatLess(zcut, get_triangles(input)[1].v[3][3])
    /\ Len(ClassTriangles("N")) = 2
    /\ Len(ClassTriangles("S")) = 1


----------------------------------------------------------------------------
(* Claim C30: main without --overwrite                                     *)

\* C30: without --overwrite, every existence check of main is over before
\* the first output file is written: a run that stops because an output
\* file exists has written no output file
C30_Original ==
    (pc = "exited" /\ exit.msg = "exists") => written = <<>>

====
